---------------------------- MODULE Spec2Model ----------------------------
(***************************************************************************)
(* A model of the collision / reaction engine of reactions.py, of the      *)
(* particle integration of particle.py and of the host loop of main.py.    *)
(*                                                                         *)
(* Python floats are modelled by exact rationals [n |-> Int, d |-> Nat],   *)
(* kept in lowest terms: the arithmetic of the source is translated        *)
(* operation by operation, rounding error is not modelled.  List indices   *)
(* are 1-based here (index k of the model is index k-1 of the source).     *)
(* A particle record carries the fields of particle.py's Particle that the *)
(* engine reads (the colour is display-only and left out) and a ghost      *)
(* field id that names the object, so that "the same particle" can be      *)
(* told from "the particle now at this index".                             *)
(***************************************************************************)
EXTENDS Integers, Sequences, FiniteSets, TLC

VARIABLES particles, candidate_pairs, colliding_pairs, pc, pre, log, bounced,
          dt, main_width, main_height, current_atomic_num, precision, host

\* The caller's own state: the arguments it passes along with the particle
\* list, the element selected in the host's table, and the arithmetic of
\* the run (precision, see Fl), and where the host's loop stands (host, see
\* HostIdle).
frame == <<dt, main_width, main_height, current_atomic_num, precision, host>>

\* The host's loop: the number of frames begun, the sub-steps of the frame
\* that are finished, the index the running for loop has reached, and the
\* ghost record of the calls made since the frame began.
HostIdle == [frames |-> 0, substep |-> 0, cursor |-> 1, calls |-> << >>]

vars == <<particles, candidate_pairs, colliding_pairs, pc, pre, log, bounced,
          frame>>

---------------------------------------------------------------------------
(* Bounds of the model.                                                    *)

MaxN == 3
MaxVel == 1
MaxGridN == 3

---------------------------------------------------------------------------
(* Exact rational arithmetic standing for the float arithmetic.           *)

Abs(k) == IF k < 0 THEN -k ELSE k

RECURSIVE GCD(_, _)
GCD(a, b) == IF b = 0 THEN a ELSE GCD(b, a % b)

Q(n, d) ==
    LET s == IF d < 0 THEN -1 ELSE 1
        g == GCD(Abs(n), Abs(d))
    IN  [n |-> (s * n) \div g, d |-> (s * d) \div g]

R(k) == [n |-> k, d |-> 1]

\* Sums and comparisons go through the least common denominator and
\* products cancel crosswise first, so that no intermediate value is
\* larger than the result needs.
RAdd(a, b) ==
    LET g == GCD(a.d, b.d)
    IN  Q(a.n * (b.d \div g) + b.n * (a.d \div g), (a.d \div g) * b.d)
RNeg(a) == [n |-> 0 - a.n, d |-> a.d]
RSub(a, b) == RAdd(a, RNeg(b))
RMul(a, b) ==
    LET g1 == GCD(Abs(a.n), b.d)
        g2 == GCD(Abs(b.n), a.d)
    IN  Q((a.n \div g1) * (b.n \div g2), (a.d \div g2) * (b.d \div g1))
RDiv(a, b) == RMul(a, Q(b.d, b.n))
RLt(a, b) ==
    LET g == GCD(a.d, b.d)
    IN  a.n * (b.d \div g) < b.n * (a.d \div g)

RECURSIVE SqrtSearch(_, _, _)
SqrtSearch(n, lo, hi) ==
    IF lo >= hi THEN lo
    ELSE LET mid == (lo + hi + 1) \div 2
         IN  IF mid * mid <= n THEN SqrtSearch(n, mid, hi)
             ELSE SqrtSearch(n, lo, mid - 1)

ISqrt(n) == SqrtSearch(n, 0, IF n < 46340 THEN n ELSE 46340)

IsSquare(a) == ISqrt(a.n) * ISqrt(a.n) = a.n /\ ISqrt(a.d) * ISqrt(a.d) = a.d

\* math.sqrt on the values the model reaches: squares of rationals.
RSqrt(a) == [n |-> ISqrt(a.n), d |-> ISqrt(a.d)]

---------------------------------------------------------------------------
(* The registry: elements.py SPECIAL_ATOMS / COMPOUND_DATA and the three   *)
(* records reactions.py defines itself.  "H2" stands for the symbol "H₂".  *)

Data(sym, m, r) == [symbol |-> sym, mass |-> m, radius |-> r]

SPECIAL_ATOMS ==
    { Data("H", 1, 6), Data("He", 4, 6), Data("Li", 7, 6), Data("Be", 9, 6),
      Data("B", 11, 6), Data("C", 12, 7), Data("N", 14, 7), Data("O", 16, 7),
      Data("F", 19, 6), Data("Ne", 20, 6), Data("Na", 23, 6), Data("Mg", 24, 6) }

COMPOUND_DATA ==
    { Data("H2", 2, 7), Data("O2", 32, 8), Data("N2", 28, 8),
      Data("H2O", 18, 9), Data("N2O", 44, 10), Data("NO", 30, 8),
      Data("NH3", 17, 8), Data("CO", 28, 7), Data("CO2", 44, 8),
      Data("NO2", 46, 8), Data("CH4", 16, 7),
      Data("He2", 8, 6), Data("HeH", 5, 6),
      Data("Li2", 14, 6), Data("LiH", 8, 6),
      Data("Be2", 18, 6), Data("BeO", 25, 7),
      Data("B2", 22, 6), Data("F2", 38, 7), Data("BF", 30, 7),
      Data("NeF", 39, 7) }

Compound(sym) == CHOOSE e \in COMPOUND_DATA : e.symbol = sym

Atom(sym) == CHOOSE e \in SPECIAL_ATOMS : e.symbol = sym

Registry(sym) ==
    IF \E e \in SPECIAL_ATOMS : e.symbol = sym THEN Atom(sym) ELSE Compound(sym)

CO2_DATA == Data("CO2", 44, 8)

CELL_SIZE == 50

---------------------------------------------------------------------------
(* particle.py: Particle.__init__ (velocity starts at 0.0).                *)

Particle(id, x, y, mass, symbol, radius) ==
    [id |-> id, x |-> x, y |-> y, vx |-> R(0), vy |-> R(0),
     mass |-> mass, symbol |-> symbol, radius |-> radius]

WithVel(p, vx, vy) == [p EXCEPT !.vx = vx, !.vy = vy]

---------------------------------------------------------------------------
(* Overlap test.                                                           *)

\* Mutant of are_colliding: a tangent pair counts as overlapping.
are_colliding_or_tangent(a, b) ==
    LET dx == RSub(b.x, a.x)
        dy == RSub(b.y, a.y)
        dist_sq == RAdd(RMul(dx, dx), RMul(dy, dy))
        r_sum == a.radius + b.radius
    IN  ~RLt(R(r_sum * r_sum), dist_sq)

are_colliding(a, b) ==
    LET dx == RSub(b.x, a.x)
        dy == RSub(b.y, a.y)
        dist_sq == RAdd(RMul(dx, dx), RMul(dy, dy))
        r_sum == R(a.radius + b.radius)
    IN  RLt(dist_sq, RMul(r_sum, r_sum))


---------------------------------------------------------------------------
(* Broadphase.  The dict grid keeps its keys in insertion order and each   *)
(* cell's index list in ascending order; candidate_pairs is the list the   *)
(* nested loops append to, in loop order.                                  *)

\* int(p.x // CELL_SIZE): the floor of the quotient.
CellOf(p) ==
    << p.x.n \div (p.x.d * CELL_SIZE), p.y.n \div (p.y.d * CELL_SIZE) >>

RECURSIVE GridKeys(_, _, _)
GridKeys(ps, i, acc) ==
    IF i > Len(ps) THEN acc
    ELSE LET c == CellOf(ps[i])
         IN  GridKeys(ps, i + 1,
                      IF \E k \in 1..Len(acc) : acc[k] = c THEN acc
                      ELSE Append(acc, c))

GridCell(ps, c) ==
    SelectSeq([i \in 1..Len(ps) |-> i], LAMBDA i : CellOf(ps[i]) = c)

\* Mutant of neighbors: the four cells next to a cell and the cell itself,
\* the diagonal cells forgotten.
neighbors_orthogonal ==
    << <<-1, 0>>, <<0, -1>>, <<0, 0>>, <<0, 1>>, <<1, 0>> >>

neighbors ==
    << <<-1, -1>>, <<-1, 0>>, <<-1, 1>>,
       <<0, -1>>,  <<0, 0>>,  <<0, 1>>,
       <<1, -1>>,  <<1, 0>>,  <<1, 1>> >>

\* Mutant of PairsBetween: the test i1 < i2 weakened to i1 # i2.
RECURSIVE PairsBetween_unordered(_, _, _, _)
PairsBetween_unordered(l1, l2, a, b) ==
    IF a > Len(l1) THEN << >>
    ELSE IF b > Len(l2) THEN PairsBetween_unordered(l1, l2, a + 1, 1)
    ELSE (IF l1[a] # l2[b] THEN << <<l1[a], l2[b]>> >> ELSE << >>)
         \o PairsBetween_unordered(l1, l2, a, b + 1)

RECURSIVE PairsBetween(_, _, _, _)
PairsBetween(l1, l2, a, b) ==
    IF a > Len(l1) THEN << >>
    ELSE IF b > Len(l2) THEN PairsBetween(l1, l2, a + 1, 1)
    ELSE (IF l1[a] < l2[b] THEN << <<l1[a], l2[b]>> >> ELSE << >>)
         \o PairsBetween(l1, l2, a, b + 1)

RECURSIVE CellPairs(_, _, _, _)
CellPairs(ps, keys, c, k) ==
    IF k > Len(neighbors) THEN << >>
    ELSE LET nc == << c[1] + neighbors[k][1], c[2] + neighbors[k][2] >>
         IN  (IF \E m \in 1..Len(keys) : keys[m] = nc
              THEN PairsBetween(GridCell(ps, c), GridCell(ps, nc), 1, 1)
              ELSE << >>)
             \o CellPairs(ps, keys, c, k + 1)

RECURSIVE GridPairs(_, _, _)
GridPairs(ps, keys, m) ==
    IF m > Len(keys) THEN << >>
    ELSE CellPairs(ps, keys, keys[m], 1) \o GridPairs(ps, keys, m + 1)

build_spatial_grid(ps) == GridPairs(ps, GridKeys(ps, 1, << >>), 1)

detect_overlapping_pairs(ps, cand) ==
    { cand[k] : k \in { m \in 1..Len(cand) :
                          are_colliding(ps[cand[m][1]], ps[cand[m][2]]) } }

---------------------------------------------------------------------------
(* Reaction passes.  The scan state st holds to_remove (rm), to_add (add), *)
(* the ghost log of the matches made and the next fresh ghost id.          *)

Max(S) == CHOOSE m \in S : \A k \in S : k <= m

DelAt(ps, idx) == SubSeq(ps, 1, idx - 1) \o SubSeq(ps, idx + 1, Len(ps))

\* for idx in sorted(to_remove, reverse=True): del particles[idx]
RECURSIVE DelAll(_, _)
DelAll(ps, rm) ==
    IF rm = {} THEN ps ELSE DelAll(DelAt(ps, Max(rm)), rm \ {Max(rm)})

Scan0(lg, fresh) == [rm |-> {}, add |-> << >>, log |-> lg, fresh |-> fresh]

Matched(st, pass, idx, reactants, products) ==
    [rm |-> st.rm \cup { idx[k] : k \in 1..Len(idx) },
     add |-> st.add \o products,
     log |-> Append(st.log, [pass |-> pass, idx |-> idx,
                             reactants |-> reactants, products |-> products]),
     fresh |-> st.fresh + Len(products)]

\* Mutant of Applied: the products are put in front of the survivors.
Applied_in_front(ps, st) == st.add \o DelAll(ps, st.rm)

Applied(ps, st) == DelAll(ps, st.rm) \o st.add

\* Mutant of combine_two: the momentum sum is not divided by the mass sum.
combine_two_undivided(a, b, data, id) ==
    LET m_sum == RAdd(a.mass, b.mass)
        vx_sum == RAdd(RMul(a.vx, a.mass), RMul(b.vx, b.mass))
        vy_sum == RAdd(RMul(a.vy, a.mass), RMul(b.vy, b.mass))
        x_cen == RMul(RAdd(a.x, b.x), Q(1, 2))
        y_cen == RMul(RAdd(a.y, b.y), Q(1, 2))
        p == Particle(id, x_cen, y_cen, m_sum, data.symbol, data.radius)
    IN  WithVel(p, vx_sum, vy_sum)

combine_two(a, b, data, id) ==
    LET m_sum == RAdd(a.mass, b.mass)
        vx_sum == RAdd(RMul(a.vx, a.mass), RMul(b.vx, b.mass))
        vy_sum == RAdd(RMul(a.vy, a.mass), RMul(b.vy, b.mass))
        x_cen == RMul(RAdd(a.x, b.x), Q(1, 2))
        y_cen == RMul(RAdd(a.y, b.y), Q(1, 2))
        p == Particle(id, x_cen, y_cen, m_sum, data.symbol, data.radius)
    IN  WithVel(p, RDiv(vx_sum, m_sum), RDiv(vy_sum, m_sum))

NoData == Data("", 0, 0)

\* Mutant of DiatomicData: the hydrogen molecule is given the radius of the
\* hydrogen atom.
DiatomicData_atom_radius(s1, s2) ==
    IF s1 = "H" /\ s2 = "H" THEN Data("H2", 2, Atom("H").radius)
    ELSE IF s1 = "N" /\ s2 = "N" THEN Compound("N2")
    ELSE IF s1 = "O" /\ s2 = "O" THEN Compound("O2")
    ELSE IF s1 = "He" /\ s2 = "He" THEN Compound("He2")
    ELSE IF s1 = "Li" /\ s2 = "Li" THEN Compound("Li2")
    ELSE IF s1 = "Be" /\ s2 = "Be" THEN Compound("Be2")
    ELSE IF s1 = "B" /\ s2 = "B" THEN Compound("B2")
    ELSE IF s1 = "F" /\ s2 = "F" THEN Compound("F2")
    ELSE NoData

\* The if / elif chain of pairwise_reactions_diatomic.
DiatomicData(s1, s2) ==
    IF s1 = "H" /\ s2 = "H" THEN Compound("H2")
    ELSE IF s1 = "N" /\ s2 = "N" THEN Compound("N2")
    ELSE IF s1 = "O" /\ s2 = "O" THEN Compound("O2")
    ELSE IF s1 = "He" /\ s2 = "He" THEN Compound("He2")
    ELSE IF s1 = "Li" /\ s2 = "Li" THEN Compound("Li2")
    ELSE IF s1 = "Be" /\ s2 = "Be" THEN Compound("Be2")
    ELSE IF s1 = "B" /\ s2 = "B" THEN Compound("B2")
    ELSE IF s1 = "F" /\ s2 = "F" THEN Compound("F2")
    ELSE NoData

RECURSIVE DiatomicJ(_, _, _, _, _)
DiatomicJ(ps, cp, i, j, st) ==
    IF j > Len(ps) THEN st
    ELSE IF j \in st.rm \/ <<i, j>> \notin cp THEN DiatomicJ(ps, cp, i, j + 1, st)
    ELSE LET p1 == ps[i]
             p2 == ps[j]
             data == DiatomicData(p1.symbol, p2.symbol)
         IN  IF data = NoData THEN DiatomicJ(ps, cp, i, j + 1, st)
             ELSE DiatomicJ(ps, cp, i, j + 1,
                      Matched(st, "diatomic", <<i, j>>, <<p1, p2>>,
                              << combine_two(p1, p2, data, st.fresh) >>))

RECURSIVE DiatomicI(_, _, _, _)
DiatomicI(ps, cp, i, st) ==
    IF i > Len(ps) - 1 THEN st
    ELSE IF i \in st.rm THEN DiatomicI(ps, cp, i + 1, st)
    ELSE DiatomicI(ps, cp, i + 1, DiatomicJ(ps, cp, i, i + 1, st))

pairwise_reactions_diatomic(ps, cp, lg, fresh) ==
    DiatomicI(ps, cp, 1, Scan0(lg, fresh))

\* Mutant of ExtraData: the chain without its first branch, C + O2.
ExtraData_without_carbon(s1, s2) ==
    LET syms == {s1, s2}
    IN  IF syms = {"CO", "O"} THEN CO2_DATA
        ELSE IF syms = {"N", "O"} THEN Compound("NO")
        ELSE IF syms = {"He", "H"} THEN Compound("HeH")
        ELSE IF syms = {"Li", "H"} THEN Compound("LiH")
        ELSE IF syms = {"Be", "O"} THEN Compound("BeO")
        ELSE IF syms = {"B", "F"} THEN Compound("BF")
        ELSE IF syms = {"Ne", "F"} THEN Compound("NeF")
        ELSE NoData

\* The if / elif chain of pairwise_reactions_extra; COMPOUND_DATA.get finds
\* every symbol it is asked for, so the inline defaults are never used.
ExtraData(s1, s2) ==
    LET syms == {s1, s2}
    IN  IF syms = {"C", "O2"} THEN CO2_DATA
        ELSE IF syms = {"CO", "O"} THEN CO2_DATA
        ELSE IF syms = {"N", "O"} THEN Compound("NO")
        ELSE IF syms = {"He", "H"} THEN Compound("HeH")
        ELSE IF syms = {"Li", "H"} THEN Compound("LiH")
        ELSE IF syms = {"Be", "O"} THEN Compound("BeO")
        ELSE IF syms = {"B", "F"} THEN Compound("BF")
        ELSE IF syms = {"Ne", "F"} THEN Compound("NeF")
        ELSE NoData

\* Mutant of ExtraProduct: the plain mean of the two velocities instead of
\* the mass-weighted one.
ExtraProduct_unweighted(p1, p2, data, id) ==
    LET m_sum == RAdd(p1.mass, p2.mass)
        x_cen == RMul(RAdd(p1.x, p2.x), Q(1, 2))
        y_cen == RMul(RAdd(p1.y, p2.y), Q(1, 2))
        newp == Particle(id, x_cen, y_cen, m_sum, data.symbol, data.radius)
    IN  WithVel(newp, RMul(RAdd(p1.vx, p2.vx), Q(1, 2)),
                      RMul(RAdd(p1.vy, p2.vy), Q(1, 2)))

\* The block each branch of pairwise_reactions_extra repeats inline.
ExtraProduct(p1, p2, data, id) ==
    LET m_sum == RAdd(p1.mass, p2.mass)
        vx_sum == RAdd(RMul(p1.vx, p1.mass), RMul(p2.vx, p2.mass))
        vy_sum == RAdd(RMul(p1.vy, p1.mass), RMul(p2.vy, p2.mass))
        x_cen == RMul(RAdd(p1.x, p2.x), Q(1, 2))
        y_cen == RMul(RAdd(p1.y, p2.y), Q(1, 2))
        newp == Particle(id, x_cen, y_cen, m_sum, data.symbol, data.radius)
    IN  WithVel(newp, RDiv(vx_sum, m_sum), RDiv(vy_sum, m_sum))

RECURSIVE ExtraJ(_, _, _, _, _)
ExtraJ(ps, cp, i, j, st) ==
    IF j > Len(ps) THEN st
    ELSE IF j \in st.rm \/ <<i, j>> \notin cp THEN ExtraJ(ps, cp, i, j + 1, st)
    ELSE LET p1 == ps[i]
             p2 == ps[j]
             data == ExtraData(p1.symbol, p2.symbol)
         IN  IF data = NoData THEN ExtraJ(ps, cp, i, j + 1, st)
             ELSE ExtraJ(ps, cp, i, j + 1,
                      Matched(st, "extra", <<i, j>>, <<p1, p2>>,
                              << ExtraProduct(p1, p2, data, st.fresh) >>))

RECURSIVE ExtraI(_, _, _, _)
ExtraI(ps, cp, i, st) ==
    IF i > Len(ps) - 1 THEN st
    ELSE IF i \in st.rm THEN ExtraI(ps, cp, i + 1, st)
    ELSE ExtraI(ps, cp, i + 1, ExtraJ(ps, cp, i, i + 1, st))

pairwise_reactions_extra(ps, cp, lg, fresh) ==
    ExtraI(ps, cp, 1, Scan0(lg, fresh))

---------------------------------------------------------------------------
(* Triple and quadruple passes.                                            *)

Count(syms, s) == Cardinality({ k \in 1..Len(syms) : syms[k] = s })

\* Mutant of spawn_two_molecules_3: each product gets the whole mass sum.
spawn_two_molecules_3_unsplit(a, b, c, data, id) ==
    LET m_sum == RAdd(RAdd(a.mass, b.mass), c.mass)
        vx_sum == RAdd(RAdd(RMul(a.vx, a.mass), RMul(b.vx, b.mass)),
                       RMul(c.vx, c.mass))
        vy_sum == RAdd(RAdd(RMul(a.vy, a.mass), RMul(b.vy, b.mass)),
                       RMul(c.vy, c.mass))
        x_cen == RDiv(RAdd(RAdd(a.x, b.x), c.x), R(3))
        y_cen == RDiv(RAdd(RAdd(a.y, b.y), c.y), R(3))
        vx == RDiv(vx_sum, m_sum)
        vy == RDiv(vy_sum, m_sum)
        pA == Particle(id, RSub(x_cen, R(5)), y_cen, m_sum,
                       data.symbol, data.radius)
        pB == Particle(id + 1, RAdd(x_cen, R(5)), y_cen, m_sum,
                       data.symbol, data.radius)
    IN  << WithVel(pA, vx, vy), WithVel(pB, vx, vy) >>

spawn_two_molecules_3(a, b, c, data, id) ==
    LET m_sum == RAdd(RAdd(a.mass, b.mass), c.mass)
        vx_sum == RAdd(RAdd(RMul(a.vx, a.mass), RMul(b.vx, b.mass)),
                       RMul(c.vx, c.mass))
        vy_sum == RAdd(RAdd(RMul(a.vy, a.mass), RMul(b.vy, b.mass)),
                       RMul(c.vy, c.mass))
        x_cen == RDiv(RAdd(RAdd(a.x, b.x), c.x), R(3))
        y_cen == RDiv(RAdd(RAdd(a.y, b.y), c.y), R(3))
        each_mass == RMul(m_sum, Q(1, 2))
        vx == RDiv(vx_sum, m_sum)
        vy == RDiv(vy_sum, m_sum)
        pA == Particle(id, RSub(x_cen, R(5)), y_cen, each_mass,
                       data.symbol, data.radius)
        pB == Particle(id + 1, RAdd(x_cen, R(5)), y_cen, each_mass,
                       data.symbol, data.radius)
    IN  << WithVel(pA, vx, vy), WithVel(pB, vx, vy) >>

\* Mutant of TripleData: the count of the O2 is not tested.
TripleData_loose(syms) ==
    IF Count(syms, "H2") = 2 THEN Compound("H2O")
    ELSE IF Count(syms, "N2") = 2 THEN Compound("N2O")
    ELSE NoData

\* The if / elif of triple_collision_stoich on syms.count.
TripleData(syms) ==
    IF Count(syms, "H2") = 2 /\ Count(syms, "O2") = 1 THEN Compound("H2O")
    ELSE IF Count(syms, "N2") = 2 /\ Count(syms, "O2") = 1 THEN Compound("N2O")
    ELSE NoData

RECURSIVE TripleK(_, _, _, _, _, _)
TripleK(ps, cp, i, j, k, st) ==
    IF k > Len(ps) THEN st
    ELSE IF k \in st.rm THEN TripleK(ps, cp, i, j, k + 1, st)
    ELSE IF <<i, k>> \in cp /\ <<j, k>> \in cp
    THEN LET p1 == ps[i]
             p2 == ps[j]
             p3 == ps[k]
             data == TripleData(<<p1.symbol, p2.symbol, p3.symbol>>)
         IN  IF data = NoData THEN TripleK(ps, cp, i, j, k + 1, st)
             ELSE TripleK(ps, cp, i, j, k + 1,
                      Matched(st, "triple", <<i, j, k>>, <<p1, p2, p3>>,
                              spawn_two_molecules_3(p1, p2, p3, data, st.fresh)))
    ELSE TripleK(ps, cp, i, j, k + 1, st)

RECURSIVE TripleJ(_, _, _, _, _)
TripleJ(ps, cp, i, j, st) ==
    IF j > Len(ps) - 1 THEN st
    ELSE IF j \in st.rm \/ <<i, j>> \notin cp THEN TripleJ(ps, cp, i, j + 1, st)
    ELSE TripleJ(ps, cp, i, j + 1, TripleK(ps, cp, i, j, j + 1, st))

RECURSIVE TripleI(_, _, _, _)
TripleI(ps, cp, i, st) ==
    IF i > Len(ps) - 2 THEN st
    ELSE IF i \in st.rm THEN TripleI(ps, cp, i + 1, st)
    ELSE TripleI(ps, cp, i + 1, TripleJ(ps, cp, i, i + 1, st))

triple_collision_stoich(ps, cp, lg, fresh) ==
    TripleI(ps, cp, 1, Scan0(lg, fresh))

\* Mutant of spawn_two_molecules_4: each product gets the whole mass sum.
spawn_two_molecules_4_whole(a, b, c, d, data, id) ==
    LET m_sum == RAdd(RAdd(RAdd(a.mass, b.mass), c.mass), d.mass)
        vx_sum == RAdd(RAdd(RAdd(RMul(a.vx, a.mass), RMul(b.vx, b.mass)),
                            RMul(c.vx, c.mass)), RMul(d.vx, d.mass))
        vy_sum == RAdd(RAdd(RAdd(RMul(a.vy, a.mass), RMul(b.vy, b.mass)),
                            RMul(c.vy, c.mass)), RMul(d.vy, d.mass))
        x_cen == RDiv(RAdd(RAdd(RAdd(a.x, b.x), c.x), d.x), R(4))
        y_cen == RDiv(RAdd(RAdd(RAdd(a.y, b.y), c.y), d.y), R(4))
        vx == RDiv(vx_sum, m_sum)
        vy == RDiv(vy_sum, m_sum)
        pA == Particle(id, RSub(x_cen, R(5)), y_cen, m_sum,
                       data.symbol, data.radius)
        pB == Particle(id + 1, RAdd(x_cen, R(5)), y_cen, m_sum,
                       data.symbol, data.radius)
    IN  << WithVel(pA, vx, vy), WithVel(pB, vx, vy) >>

spawn_two_molecules_4(a, b, c, d, data, id) ==
    LET m_sum == RAdd(RAdd(RAdd(a.mass, b.mass), c.mass), d.mass)
        vx_sum == RAdd(RAdd(RAdd(RMul(a.vx, a.mass), RMul(b.vx, b.mass)),
                            RMul(c.vx, c.mass)), RMul(d.vx, d.mass))
        vy_sum == RAdd(RAdd(RAdd(RMul(a.vy, a.mass), RMul(b.vy, b.mass)),
                            RMul(c.vy, c.mass)), RMul(d.vy, d.mass))
        x_cen == RDiv(RAdd(RAdd(RAdd(a.x, b.x), c.x), d.x), R(4))
        y_cen == RDiv(RAdd(RAdd(RAdd(a.y, b.y), c.y), d.y), R(4))
        each_mass == RDiv(m_sum, R(2))
        vx == RDiv(vx_sum, m_sum)
        vy == RDiv(vy_sum, m_sum)
        pA == Particle(id, RSub(x_cen, R(5)), y_cen, each_mass,
                       data.symbol, data.radius)
        pB == Particle(id + 1, RAdd(x_cen, R(5)), y_cen, each_mass,
                       data.symbol, data.radius)
    IN  << WithVel(pA, vx, vy), WithVel(pB, vx, vy) >>

\* The if of quadruple_collision_ammonia on syms.count.
QuadData(syms) ==
    IF Count(syms, "N2") = 1 /\ Count(syms, "H2") = 3 THEN Compound("NH3")
    ELSE NoData

RECURSIVE QuadL(_, _, _, _, _, _, _)
QuadL(ps, cp, i, j, k, l, st) ==
    IF l > Len(ps) THEN st
    ELSE IF l \in st.rm THEN QuadL(ps, cp, i, j, k, l + 1, st)
    ELSE IF <<i, l>> \in cp /\ <<j, l>> \in cp /\ <<k, l>> \in cp
    THEN LET p1 == ps[i]
             p2 == ps[j]
             p3 == ps[k]
             p4 == ps[l]
             data == QuadData(<<p1.symbol, p2.symbol, p3.symbol, p4.symbol>>)
         IN  IF data = NoData THEN QuadL(ps, cp, i, j, k, l + 1, st)
             ELSE QuadL(ps, cp, i, j, k, l + 1,
                      Matched(st, "quad", <<i, j, k, l>>, <<p1, p2, p3, p4>>,
                              spawn_two_molecules_4(p1, p2, p3, p4, data, st.fresh)))
    ELSE QuadL(ps, cp, i, j, k, l + 1, st)

RECURSIVE QuadK(_, _, _, _, _, _)
QuadK(ps, cp, i, j, k, st) ==
    IF k > Len(ps) - 1 THEN st
    ELSE IF k \in st.rm THEN QuadK(ps, cp, i, j, k + 1, st)
    ELSE IF <<i, k>> \notin cp \/ <<j, k>> \notin cp
    THEN QuadK(ps, cp, i, j, k + 1, st)
    ELSE QuadK(ps, cp, i, j, k + 1, QuadL(ps, cp, i, j, k, k + 1, st))

RECURSIVE QuadJ(_, _, _, _, _)
QuadJ(ps, cp, i, j, st) ==
    IF j > Len(ps) - 2 THEN st
    ELSE IF j \in st.rm \/ <<i, j>> \notin cp THEN QuadJ(ps, cp, i, j + 1, st)
    ELSE QuadJ(ps, cp, i, j + 1, QuadK(ps, cp, i, j, j + 1, st))

RECURSIVE QuadI(_, _, _, _)
QuadI(ps, cp, i, st) ==
    IF i > Len(ps) - 3 THEN st
    ELSE IF i \in st.rm THEN QuadI(ps, cp, i + 1, st)
    ELSE QuadI(ps, cp, i + 1, QuadJ(ps, cp, i, i + 1, st))

quadruple_collision_ammonia(ps, cp, lg, fresh) ==
    QuadI(ps, cp, 1, Scan0(lg, fresh))

---------------------------------------------------------------------------
(* Elastic bounce.                                                         *)

\* Mutant of EPSILON: no replacement of a zero distance.
EPSILON_zero == [n |-> 0, d |-> 1]

\* The 1e-12 that replaces a zero distance.  Only its sign and its being
\* smaller than every radius sum enter the result (dx = dy = 0 there), so it
\* is scaled to what TLC's 32-bit integers hold.
EPSILON == [n |-> 1, d |-> 1000000]

\* Mutant of BounceVelocity: both particles get the share 2 * m2 / (m1 + m2).
BounceVelocity_same_share(st, pair, p1, p2, nx, ny, half, dot, exact) ==
    LET m1 == p1.mass
        m2 == p2.mass
        hit == RLt(dot, R(0))
        c1 == RMul(RDiv(RMul(R(2), m2), RAdd(m1, m2)), dot)
        q1 == [p1 EXCEPT
                 !.x = RSub(p1.x, RMul(nx, half)),
                 !.y = RSub(p1.y, RMul(ny, half)),
                 !.vx = IF hit THEN RSub(p1.vx, RMul(c1, nx)) ELSE @,
                 !.vy = IF hit THEN RSub(p1.vy, RMul(c1, ny)) ELSE @]
        q2 == [p2 EXCEPT
                 !.x = RAdd(p2.x, RMul(nx, half)),
                 !.y = RAdd(p2.y, RMul(ny, half)),
                 !.vx = IF hit THEN RAdd(p2.vx, RMul(c1, nx)) ELSE @,
                 !.vy = IF hit THEN RAdd(p2.vy, RMul(c1, ny)) ELSE @]
    IN  IF hit /\ RAdd(m1, m2) = R(0) THEN [st EXCEPT !.fault = TRUE]
        ELSE [ps |-> [st.ps EXCEPT ![pair[1]] = q1, ![pair[2]] = q2],
              log |-> Append(st.log, [pair |-> pair, before |-> <<p1, p2>>,
                                      after |-> <<q1, q2>>, exact |-> exact,
                                      hit |-> hit]),
              fault |-> FALSE]

\* One iteration of the loop of do_elastic_bounce, on the pair (i1, i2),
\* in three stages: the guards and the distance (BounceOne), the overlap
\* and the normal (BounceSeparate), the velocity update (BounceVelocity).
\* st.ps is the particle list, st.log the ghost record of the pairs handled.
BounceVelocity(st, pair, p1, p2, nx, ny, half, dot, exact) ==
    LET m1 == p1.mass
        m2 == p2.mass
        hit == RLt(dot, R(0))
        c1 == RMul(RDiv(RMul(R(2), m2), RAdd(m1, m2)), dot)
        c2 == RMul(RDiv(RMul(R(2), m1), RAdd(m1, m2)), dot)
        q1 == [p1 EXCEPT
                 !.x = RSub(p1.x, RMul(nx, half)),
                 !.y = RSub(p1.y, RMul(ny, half)),
                 !.vx = IF hit THEN RSub(p1.vx, RMul(c1, nx)) ELSE @,
                 !.vy = IF hit THEN RSub(p1.vy, RMul(c1, ny)) ELSE @]
        q2 == [p2 EXCEPT
                 !.x = RAdd(p2.x, RMul(nx, half)),
                 !.y = RAdd(p2.y, RMul(ny, half)),
                 !.vx = IF hit THEN RAdd(p2.vx, RMul(c2, nx)) ELSE @,
                 !.vy = IF hit THEN RAdd(p2.vy, RMul(c2, ny)) ELSE @]
    IN  IF hit /\ RAdd(m1, m2) = R(0) THEN [st EXCEPT !.fault = TRUE]
        ELSE [ps |-> [st.ps EXCEPT ![pair[1]] = q1, ![pair[2]] = q2],
              log |-> Append(st.log, [pair |-> pair, before |-> <<p1, p2>>,
                                      after |-> <<q1, q2>>, exact |-> exact,
                                      hit |-> hit]),
              fault |-> FALSE]

BounceNormal(st, pair, p1, p2, nx, ny, half, exact) ==
    BounceVelocity(st, pair, p1, p2, nx, ny, half,
                   RAdd(RMul(RSub(p1.vx, p2.vx), nx),
                        RMul(RSub(p1.vy, p2.vy), ny)), exact)

\* A float division by zero raises ZeroDivisionError: the loop ends there
\* (st.fault) with the list as the earlier iterations left it.
BounceSeparate(st, pair, p1, p2, dx, dy, dist, exact) ==
    LET overlap == RSub(R(p1.radius + p2.radius), dist)
    IN  IF RLt(R(0), overlap)
        THEN (IF dist = R(0) THEN [st EXCEPT !.fault = TRUE]
              ELSE BounceNormal(st, pair, p1, p2, RDiv(dx, dist), RDiv(dy, dist),
                                RMul(overlap, Q(1, 2)), exact))
        ELSE st

BounceDistance(st, pair, p1, p2, dx, dy, dist_sq) ==
    LET root == RSqrt(dist_sq)
    IN  BounceSeparate(st, pair, p1, p2, dx, dy,
                       IF root = R(0) THEN EPSILON ELSE root, IsSquare(dist_sq))

BounceOne(st, pair) ==
    IF pair[1] > Len(st.ps) \/ pair[2] > Len(st.ps) THEN st
    ELSE LET p1 == st.ps[pair[1]]
             p2 == st.ps[pair[2]]
             dx == RSub(p2.x, p1.x)
             dy == RSub(p2.y, p1.y)
         IN  IF are_colliding(p1, p2)
             THEN BounceDistance(st, pair, p1, p2, dx, dy,
                                 RAdd(RMul(dx, dx), RMul(dy, dy)))
             ELSE st

RECURSIVE BounceLoop(_, _, _)
BounceLoop(st, order, k) ==
    IF k > Len(order) \/ st.fault THEN st
    ELSE BounceLoop(BounceOne(st, order[k]), order, k + 1)

do_elastic_bounce(ps, order) ==
    BounceLoop([ps |-> ps, log |-> << >>, fault |-> FALSE], order, 1)

\* The order in which a Python set of index pairs is iterated is fixed by
\* the hash table, not by the program: the model lets it be the ascending
\* or the descending lexicographic order.
PairLess(a, b) == a[1] < b[1] \/ (a[1] = b[1] /\ a[2] < b[2])

RECURSIVE Ascending(_)
Ascending(S) ==
    IF S = {} THEN << >>
    ELSE LET m == CHOOSE a \in S : \A b \in S \ {a} : PairLess(a, b)
         IN  << m >> \o Ascending(S \ {m})

RECURSIVE Descending(_)
Descending(S) ==
    IF S = {} THEN << >>
    ELSE LET m == CHOOSE a \in S : \A b \in S \ {a} : PairLess(b, a)
         IN  << m >> \o Descending(S \ {m})

IterationOrders(S) == { Ascending(S), Descending(S) }

---------------------------------------------------------------------------
(* resolve_collisions, one step per call it makes.  pc is the position in  *)
(* its body; pre is the particle list at the entry of the call.            *)

RECURSIVE NumProducts(_)
NumProducts(lg) ==
    IF lg = << >> THEN 0 ELSE Len(lg[1].products) + NumProducts(Tail(lg))

FreshId == Len(pre) + NumProducts(log) + 1

\* The end of a pass: the deletions, the appends, and the ghost log.
Commit(st) == particles' = Applied(particles, st) /\ log' = st.log

CommitBounce(st) ==
    /\ particles' = st.ps
    /\ bounced' = st.log
    /\ pc' = IF st.fault THEN "fault" ELSE "done"

BuildSpatialGrid ==
    /\ pc \in {"grid", "regrid"}
    /\ candidate_pairs' = build_spatial_grid(particles)
    /\ pc' = IF pc = "grid" THEN "detect" ELSE "redetect"
    /\ UNCHANGED <<particles, colliding_pairs, pre, log, bounced, frame>>

\* Mutant of DetectOverlappingPairs: the set is computed once and the bounce
\* is handed the one from before the reaction passes.
DetectOverlappingPairs_once ==
    /\ pc \in {"detect", "redetect"}
    /\ colliding_pairs' = IF pc = "detect"
                          THEN detect_overlapping_pairs(particles, candidate_pairs)
                          ELSE colliding_pairs
    /\ pc' = IF pc = "detect" THEN "diatomic" ELSE "bounce"
    /\ UNCHANGED <<particles, candidate_pairs, pre, log, bounced, frame>>

DetectOverlappingPairs ==
    /\ pc \in {"detect", "redetect"}
    /\ colliding_pairs' = detect_overlapping_pairs(particles, candidate_pairs)
    /\ pc' = IF pc = "detect" THEN "diatomic" ELSE "bounce"
    /\ UNCHANGED <<particles, candidate_pairs, pre, log, bounced, frame>>

PairwiseReactionsDiatomic ==
    /\ pc = "diatomic"
    /\ Commit(pairwise_reactions_diatomic(particles, colliding_pairs, log, FreshId))
    /\ pc' = "extra"
    /\ UNCHANGED <<candidate_pairs, colliding_pairs, pre, bounced, frame>>

PairwiseReactionsExtra ==
    /\ pc = "extra"
    /\ Commit(pairwise_reactions_extra(particles, colliding_pairs, log, FreshId))
    /\ pc' = "triple"
    /\ UNCHANGED <<candidate_pairs, colliding_pairs, pre, bounced, frame>>

TripleCollisionStoich ==
    /\ pc = "triple"
    /\ Commit(triple_collision_stoich(particles, colliding_pairs, log, FreshId))
    /\ pc' = "quad"
    /\ UNCHANGED <<candidate_pairs, colliding_pairs, pre, bounced, frame>>

QuadrupleCollisionAmmonia ==
    /\ pc = "quad"
    /\ Commit(quadruple_collision_ammonia(particles, colliding_pairs, log, FreshId))
    /\ pc' = "regrid"
    /\ UNCHANGED <<candidate_pairs, colliding_pairs, pre, bounced, frame>>

DoElasticBounce ==
    /\ pc = "bounce"
    /\ \E order \in IterationOrders(colliding_pairs) :
         CommitBounce(do_elastic_bounce(particles, order))
    /\ UNCHANGED <<candidate_pairs, colliding_pairs, pre, log, frame>>

Next ==
    \/ BuildSpatialGrid
    \/ DetectOverlappingPairs
    \/ PairwiseReactionsDiatomic
    \/ PairwiseReactionsExtra
    \/ TripleCollisionStoich
    \/ QuadrupleCollisionAmmonia
    \/ DoElasticBounce

---------------------------------------------------------------------------
(* Inputs.  A spawned particle has the mass and radius of its species.     *)

Spawn(id, sym, x, y, vx, vy) ==
    WithVel(Particle(id, R(x), R(y), R(Registry(sym).mass), sym,
                     Registry(sym).radius), R(vx), R(vy))

Entry(ps) ==
    /\ particles = ps
    /\ pre = ps
    /\ candidate_pairs = << >>
    /\ colliding_pairs = {}
    /\ pc = "grid"
    /\ log = << >>
    /\ bounced = << >>
    /\ dt = R(0)
    /\ main_width = 2 * CELL_SIZE
    /\ main_height = 2 * CELL_SIZE
    /\ current_atomic_num = 1
    /\ precision = 0
    /\ host = HostIdle

\* Particles on two sites of one horizontal line, 14 apart and on either
\* side of a grid-cell border: particles on the same site overlap, particles
\* on different sites overlap iff their radius sum exceeds 14 (H2 and O2 do,
\* H2 and H2 are exactly tangent and do not).  Particle i enters with the
\* velocity Drift(i).
Sites == {40, 54}

Drift(i) == << (i % 3) - 1, (i + 1) % 2 >>

Listed(n, syms, xs) ==
    Entry([i \in 1..n |-> Spawn(i, syms[i], xs[i], 45, Drift(i)[1], Drift(i)[2])])

Symbols == {"H", "C", "H2", "O2", "N2"}

LargeSymbols == {"H", "H2", "O2"}

Ammonia == {"N2", "H2"}

\* Every list of up to MaxN particles of Symbols.
InitFree ==
    \E n \in 1..MaxN :
      \E syms \in [1..n -> Symbols], xs \in [1..n -> Sites] : Listed(n, syms, xs)

\* Every list of MaxN + 1 particles of LargeSymbols.
InitLarge ==
    \E syms \in [1..(MaxN + 1) -> LargeSymbols], xs \in [1..(MaxN + 1) -> Sites] :
      Listed(MaxN + 1, syms, xs)

\* Every list of one N2 and three H2, in every order.
InitAmmonia ==
    \E syms \in [1..4 -> Ammonia], xs \in [1..4 -> Sites] :
      /\ Cardinality({ i \in 1..4 : syms[i] = "N2" }) = 1
      /\ Listed(4, syms, xs)

\* Every pair of the species the pairwise rules name, the second particle
\* 10 away (overlapping, whatever the two radii) or 20 away (apart).
RuleSymbols ==
    {"H", "He", "Li", "Be", "B", "C", "N", "O", "F", "Ne", "CO", "O2", "N2"}

InitRules ==
    \E s1 \in RuleSymbols, s2 \in RuleSymbols, off \in {<<-6, 8>>, <<0, 20>>} :
      Entry(<< Spawn(1, s1, 45, 45, 1, -1),
               Spawn(2, s2, 45 + off[1], 45 + off[2], -1, 0) >>)

Init == InitFree \/ InitLarge \/ InitAmmonia \/ InitRules

Spec == Init /\ [][Next]_vars

---------------------------------------------------------------------------
(* Two particles with every velocity up to MaxVel per axis (the second one  *)
(* moves along x only), the second one at an offset whose length is a       *)
(* whole number, so that the distance the bounce takes the root of is a     *)
(* square: 0, 14, 10, 15 and 20.                                            *)

\* Every list of MaxN + 2 particles of H2 and O2: the clusters in which one
\* pair of H2 overlaps several O2.
ClusterSymbols == {"H2", "O2"}

InitCluster ==
    \E syms \in [1..(MaxN + 2) -> ClusterSymbols], xs \in [1..(MaxN + 2) -> Sites] :
      Listed(MaxN + 2, syms, xs)

SpecCluster == InitCluster /\ [][Next]_vars

\* One C, one O2 and two H2 in every list order and on every placement on
\* the two sites.
InitPriority ==
    \E syms \in [1..4 -> {"C", "O2", "H2"}], xs \in [1..4 -> Sites] :
      /\ Cardinality({ i \in 1..4 : syms[i] = "C" }) = 1
      /\ Cardinality({ i \in 1..4 : syms[i] = "O2" }) = 1
      /\ Listed(4, syms, xs)

SpecPriority == InitPriority /\ [][Next]_vars

PairSymbols == {"H", "C", "O2", "N2"}

Offsets == { <<0, 0>>, <<14, 0>>, <<-6, 8>>, <<9, -12>>, <<0, 20>> }

Vel == (0 - MaxVel)..MaxVel

InitVelocities ==
    \E s1 \in PairSymbols, s2 \in PairSymbols, off \in Offsets,
       vx1 \in Vel, vy1 \in Vel, vx2 \in Vel :
      Entry(<< Spawn(1, s1, 45, 45, vx1, vy1),
               Spawn(2, s2, 45 + off[1], 45 + off[2], vx2, 0) >>)

InitPair == InitVelocities \/ InitRules

SpecPair == InitPair /\ [][Next]_vars

---------------------------------------------------------------------------
(* The broadphase and the overlap test alone, on up to MaxGridN particles   *)
(* of any radius up to CELL_SIZE / 2 spread over a 3 x 3 block of cells.    *)

GridX == {-5, 40, 55}

GridY == {40, 55, 120}

GridRadii == {8, 25}

InitGrid ==
    \E n \in 1..MaxGridN :
      \E xs \in [1..n -> GridX], ys \in [1..n -> GridY], rs \in [1..n -> GridRadii] :
        Entry([i \in 1..n |-> Particle(i, R(xs[i]), R(ys[i]), R(50), "El50", rs[i])])

NextGrid == BuildSpatialGrid \/ DetectOverlappingPairs

SpecGrid == InitGrid /\ [][NextGrid]_vars

---------------------------------------------------------------------------
(* Natural numbers of any size, as little-endian sequences of limbs below  *)
(* LimbBase: the comparison sp_sq > MAX_SPEED_SQ is taken on the exact     *)
(* squares, which 32-bit integers do not hold.                             *)

LimbBase == 10000

RECURSIVE BigOf(_)
BigOf(n) == IF n = 0 THEN << >> ELSE << n % LimbBase >> \o BigOf(n \div LimbBase)

RECURSIVE BigAdd(_, _, _)
BigAdd(a, b, carry) ==
    IF a = << >> /\ b = << >> THEN (IF carry = 0 THEN << >> ELSE << carry >>)
    ELSE LET x == IF a = << >> THEN 0 ELSE Head(a)
             y == IF b = << >> THEN 0 ELSE Head(b)
             t == x + y + carry
         IN  << t % LimbBase >> \o
             BigAdd(IF a = << >> THEN a ELSE Tail(a),
                    IF b = << >> THEN b ELSE Tail(b), t \div LimbBase)

RECURSIVE BigScale(_, _, _)
BigScale(a, m, carry) ==
    IF a = << >> THEN (IF carry = 0 THEN << >> ELSE << carry >>)
    ELSE LET t == Head(a) * m + carry
         IN  << t % LimbBase >> \o BigScale(Tail(a), m, t \div LimbBase)

RECURSIVE BigMul(_, _)
BigMul(a, b) ==
    IF b = << >> THEN << >>
    ELSE BigAdd(BigScale(a, Head(b), 0), << 0 >> \o BigMul(a, Tail(b)), 0)

\* -1, 0 or 1 as a is below, equal to or above b.
RECURSIVE BigCmp(_, _)
BigCmp(a, b) ==
    IF a = << >> /\ b = << >> THEN 0
    ELSE LET x == IF a = << >> THEN 0 ELSE Head(a)
             y == IF b = << >> THEN 0 ELSE Head(b)
             c == BigCmp(IF a = << >> THEN a ELSE Tail(a),
                         IF b = << >> THEN b ELSE Tail(b))
         IN  IF c # 0 THEN c ELSE IF x < y THEN -1 ELSE IF x > y THEN 1 ELSE 0

BigSq(n) == BigMul(BigOf(Abs(n)), BigOf(Abs(n)))

\* vx * vx + vy * vy > cap_sq, on the exact values.
SpeedSqAbove(vx, vy, cap_sq) ==
    LET qq == BigSq(vx.d)
        ss == BigSq(vy.d)
        lhs == BigAdd(BigMul(BigSq(vx.n), ss), BigMul(BigSq(vy.n), qq), 0)
        rhs == BigMul(BigMul(BigOf(cap_sq.n), qq), ss)
    IN  BigCmp(BigMul(lhs, BigOf(cap_sq.d)), rhs) = 1

---------------------------------------------------------------------------
(* particle.py: the integration of one particle.                           *)

GRAVITY == Q(980665, 100000)

MAX_SPEED == R(10000)

MAX_SPEED_SQ == RMul(MAX_SPEED, MAX_SPEED)

\* math.sqrt returns the float nearest to the root.  Where the root is a
\* rational the model has it exactly; where it is not, the result lies next
\* to the root on one side or the other, and the model offers both
\* neighbours of the root among the multiples of 1 / a.d.
SqrtOutcomes(a) ==
    IF IsSquare(a) THEN { RSqrt(a) }
    ELSE { Q(ISqrt(a.n * a.d), a.d), Q(ISqrt(a.n * a.d) + 1, a.d) }

\* The clamp of apply_forces, with sp the value math.sqrt returned.
Clamped(p, sp) ==
    LET scale == RDiv(MAX_SPEED, sp)
    IN  [p EXCEPT !.vx = RMul(@, scale), !.vy = RMul(@, scale)]

\* The particles apply_forces(dt) can leave in place of p.
apply_forces(p, step) ==
    LET q == [p EXCEPT !.vy = RAdd(@, RMul(GRAVITY, step))]
    IN  IF SpeedSqAbove(q.vx, q.vy, MAX_SPEED_SQ)
        THEN { Clamped(q, sp) :
                 sp \in SqrtOutcomes(RAdd(RMul(q.vx, q.vx), RMul(q.vy, q.vy))) }
        ELSE { q }

\* The floating-point arithmetic of update_position.  With precision = 0
\* the results are taken exactly; with precision = P > 0 every result is
\* rounded to the nearest number m * 2^e with m < 2^P, ties to the even m,
\* as IEEE 754 does with P = 53.
RECURSIVE Pow2(_)
Pow2(k) == IF k = 0 THEN 1 ELSE 2 * Pow2(k - 1)

RoundHalfEven(n, d) ==
    LET q == n \div d
        r == n % d
    IN  IF 2 * r < d THEN q
        ELSE IF 2 * r > d THEN q + 1
        ELSE IF q % 2 = 0 THEN q ELSE q + 1

\* n / d > 0 scaled into [2^(P-1), 2^P) and rounded there; up / down is the
\* power of two that undoes the scaling.
RECURSIVE Significand(_, _, _, _, _)
Significand(n, d, up, down, P) ==
    IF n \div Pow2(P) >= d THEN Significand(n, 2 * d, 2 * up, down, P)
    ELSE IF n \div Pow2(P - 1) < d
         THEN (IF d % 2 = 0 THEN Significand(n, d \div 2, up, 2 * down, P)
               ELSE Significand(2 * n, d, up, 2 * down, P))
    ELSE Q(RoundHalfEven(n, d) * up, down)

Fl(a) ==
    IF precision = 0 \/ a.n = 0 THEN a
    ELSE IF a.n < 0 THEN RNeg(Significand(0 - a.n, a.d, 1, 1, precision))
    ELSE Significand(a.n, a.d, 1, 1, precision)

\* b is less than an eighth of the last digit of the float a, with a >= 1
\* in size: a + b rounds to a.  The sum need not be formed then, whose
\* numerator may be more than TLC's integers hold.
Negligible(b, a) ==
    /\ precision > 0
    /\ Abs(a.n) >= a.d
    /\ Abs(b.n) * Pow2(precision + 2) < b.d
    /\ Fl(a) = a

FAdd(a, b) ==
    IF Negligible(b, a) THEN a
    ELSE IF Negligible(a, b) THEN b
    ELSE Fl(RAdd(a, b))
FSub(a, b) == FAdd(a, RNeg(b))
RECURSIVE IsPow2(_)
IsPow2(k) == k = 1 \/ (k > 1 /\ k % 2 = 0 /\ IsPow2(k \div 2))

\* x / k for a power of two k: exact in floating point down to 2^-30, below
\* which the model's floats underflow to zero.
ScaleDown(x, k) ==
    IF x.d > 1073741824 \div k THEN R(0) ELSE Q(x.n, x.d * k)

\* The product rounded.  Where the exact product has a denominator beyond
\* TLC's integers, a power of two is taken out before the rounding and put
\* back after it, which gives the same float.
FMul(a, b) ==
    LET g1 == GCD(Abs(a.n), b.d)
        g2 == GCD(Abs(b.n), a.d)
        n == (a.n \div g1) * (b.n \div g2)
        da == a.d \div g2
        db == b.d \div g1
    IN  IF precision = 0 \/ da <= 1073741824 \div db THEN Fl(RMul(a, b))
        ELSE IF IsPow2(db) THEN ScaleDown(Fl(Q(n, da)), db)
        ELSE IF IsPow2(da) THEN ScaleDown(Fl(Q(n, db)), da)
        ELSE Fl(RMul(a, b))

\* The four blocks of update_position, in the order of the source.
Moved(p, step) ==
    [p EXCEPT !.x = FAdd(@, FMul(p.vx, step)), !.y = FAdd(@, FMul(p.vy, step))]

\* Mutant of FloorCollision: a rebound slower than 1 is raised to the
\* speed 1 instead of being snapped to zero.
FloorCollision_snap_up(p, height) ==
    IF ~RLt(FAdd(p.y, R(p.radius)), R(height))
    THEN LET overlap == FSub(FAdd(p.y, R(p.radius)), R(height))
             half == FMul(Q(-1, 2), p.vy)
         IN  [p EXCEPT !.y = FSub(@, overlap),
                       !.vy = IF RLt(R(0), p.vy)
                              THEN (IF RLt(half, R(1)) /\ RLt(R(-1), half)
                                    THEN R(-1) ELSE half)
                              ELSE @]
    ELSE p

FloorCollision(p, height) ==
    IF ~RLt(FAdd(p.y, R(p.radius)), R(height))
    THEN LET overlap == FSub(FAdd(p.y, R(p.radius)), R(height))
             half == FMul(Q(-1, 2), p.vy)
         IN  [p EXCEPT !.y = FSub(@, overlap),
                       !.vy = IF RLt(R(0), p.vy)
                              THEN (IF RLt(half, R(1)) /\ RLt(R(-1), half)
                                    THEN R(0) ELSE half)
                              ELSE @]
    ELSE p

TopCollision(p) ==
    IF RLt(FSub(p.y, R(p.radius)), R(0))
    THEN [p EXCEPT !.y = FAdd(@, FSub(R(p.radius), p.y)),
                   !.vy = IF RLt(p.vy, R(0)) THEN FMul(Q(-1, 2), p.vy) ELSE @]
    ELSE p

LeftCollision(p) ==
    IF RLt(FSub(p.x, R(p.radius)), R(0))
    THEN [p EXCEPT !.x = FAdd(@, FSub(R(p.radius), p.x)),
                   !.vx = IF RLt(p.vx, R(0)) THEN FMul(Q(-1, 2), p.vx) ELSE @]
    ELSE p

RightCollision(p, width) ==
    IF RLt(R(width), FAdd(p.x, R(p.radius)))
    THEN [p EXCEPT !.x = FSub(@, FSub(FAdd(p.x, R(p.radius)), R(width))),
                   !.vx = IF RLt(R(0), p.vx) THEN FMul(Q(-1, 2), p.vx) ELSE @]
    ELSE p

update_position(p, step, width, height) ==
    RightCollision(LeftCollision(TopCollision(
        FloorCollision(Moved(p, step), height))), width)

\* One step of a caller that integrates every particle of the list:
\* apply_forces on each, then update_position on each.
ApplyForces ==
    /\ pc = "forces"
    /\ \E qs \in [1..Len(particles) ->
                    UNION { apply_forces(particles[i], dt) : i \in 1..Len(particles) }] :
         /\ \A i \in 1..Len(particles) : qs[i] \in apply_forces(particles[i], dt)
         /\ particles' = qs
    /\ pc' = "position"
    /\ UNCHANGED <<candidate_pairs, colliding_pairs, pre, log, bounced, frame>>

UpdatePosition ==
    /\ pc = "position"
    /\ particles' = [i \in 1..Len(particles) |->
                       update_position(particles[i], dt, main_width, main_height)]
    /\ pc' = "forces"
    /\ UNCHANGED <<candidate_pairs, colliding_pairs, pre, log, bounced, frame>>

---------------------------------------------------------------------------
(* One particle released at rest between 1 and MaxDrop above its resting   *)
(* height in a box of side CELL_SIZE / 2 and stepped for ever with a fixed  *)
(* dt: apply_forces, then update_position.  The caller never stops: the    *)
(* fairness is stated on its position pc, which every step of NextDrop     *)
(* moves and which can always move (NextDrop is enabled in every state).   *)

MaxDrop == 3

DropSymbols == {"H", "O2", "H2O"}

DropSteps == { Q(1, 4), Q(1, 5), Q(1, 8), Q(1, 10) }

Caller(ps, at, step, side) ==
    /\ particles = ps
    /\ pre = ps
    /\ candidate_pairs = << >>
    /\ colliding_pairs = {}
    /\ pc = at
    /\ log = << >>
    /\ bounced = << >>
    /\ dt = step
    /\ main_width = side
    /\ main_height = side
    /\ current_atomic_num = 1
    /\ precision = 0
    /\ host = HostIdle

InitDrop ==
    \E sym \in DropSymbols, h \in 1..MaxDrop, step \in DropSteps :
      Caller(<< Spawn(1, sym, CELL_SIZE \div 4,
                      CELL_SIZE \div 2 - Registry(sym).radius - h, 0, 0) >>,
             "forces", step, CELL_SIZE \div 2)

NextDrop == ApplyForces \/ UpdatePosition

Stepped == pc' = IF pc = "forces" THEN "position" ELSE "forces"

SpecDrop == InitDrop /\ [][NextDrop]_vars /\ WF_pc(Stepped)

\* One call of update_position in arithmetic of FloatBits significant bits,
\* on a hydrogen atom placed on, between and beyond the walls of a box of
\* WallSides, with every velocity of WallVelocities on each axis.
FloatBits == 5
WallSides == {10, 12, 18}
WallPlaces == {3, 6, 9, 12, 16}
WallVelocities == {-16, -2, 0, 2, 16}
WallStep == Q(1, 4)

InitWalls ==
    \E x \in WallPlaces, y \in WallPlaces, vx \in WallVelocities,
       vy \in WallVelocities, width \in WallSides, height \in WallSides :
        /\ particles = << Spawn(1, "H", x, y, vx, vy) >>
        /\ pre = particles
        /\ candidate_pairs = << >>
        /\ colliding_pairs = {}
        /\ pc = "position"
        /\ log = << >>
        /\ bounced = << >>
        /\ dt = WallStep
        /\ main_width = width
        /\ main_height = height
        /\ current_atomic_num = 1
        /\ precision = FloatBits
        /\ host = HostIdle

NextWalls == UpdatePosition

SpecWalls == InitWalls /\ [][NextWalls]_vars

\* One call of apply_forces on a particle of any prior velocity: the
\* velocities are the multiples of ClampUnit up to MaxClamp * ClampUnit on
\* both axes, and dt is 0 or the step on which GRAVITY * dt is 1.
MaxClamp == 4
ClampUnit == 5000
ClampVelocities == { k * ClampUnit : k \in (0 - MaxClamp)..MaxClamp }
ClampSteps == { R(0), RDiv(R(1), GRAVITY) }
InitClamp ==
    \E vx \in ClampVelocities, vy \in ClampVelocities, step \in ClampSteps :
        Caller(<< Spawn(1, "H", CELL_SIZE, CELL_SIZE, vx, vy) >>, "forces",
               step, 2 * CELL_SIZE)
NextClamp == ApplyForces
SpecClamp == InitClamp /\ [][NextClamp]_vars

---------------------------------------------------------------------------
(* main.py: the event handling of the host loop.  The host has its own     *)
(* Particle class and its own table of elements; HOST_CELL_SIZE stands for *)
(* main.py's CELL_SIZE.                                                    *)

SIM_WIDTH == 1280
SIM_HEIGHT == 1024
MASS_SCALE == 100000
DEFAULT_RADIUS == 8
HOST_CELL_SIZE == 40
CELL_MARGIN == 2
TableSize == 118

\* math.pi, to the precision at which the masses fit the model's integers.
PI == Q(22, 7)

Info(sym, row, col, density) ==
    [symbol |-> sym, row |-> row, col |-> col, density |-> density,
     radius |-> DEFAULT_RADIUS]

PERIODIC_TABLE_INFO(z) ==
    CASE z = 1 -> Info("H", 1, 1, Q(8988, 100000000))
      [] z = 2 -> Info("He", 1, 18, Q(1785, 10000000))
      [] z = 3 -> Info("Li", 2, 1, Q(534, 1000))
      [] z = 4 -> Info("Be", 2, 2, Q(185, 100))
      [] z = 5 -> Info("B", 2, 13, Q(237, 100))
      [] z = 6 -> Info("C", 2, 14, Q(2267, 1000))
      [] z = 7 -> Info("N", 2, 15, Q(12506, 10000000))
      [] z = 8 -> Info("O", 2, 16, Q(1429, 1000000))
      [] z = 9 -> Info("F", 2, 17, Q(1696, 1000000))
      [] z = 10 -> Info("Ne", 2, 18, Q(8999, 10000000))
      [] z = 11 -> Info("Na", 3, 1, Q(97, 100))
      [] z = 12 -> Info("Mg", 3, 2, Q(1738, 1000))
      [] z > 12 /\ z <= 18 -> Info("El" \o ToString(z), 3, z - 12, R(1))
      [] z > 18 /\ z <= 36 -> Info("El" \o ToString(z), 4, z - 18, R(1))
      [] z > 36 /\ z <= 54 -> Info("El" \o ToString(z), 5, z - 36, R(1))
      [] z > 54 /\ z <= 86 -> Info("El" \o ToString(z), 6, z - 54, R(1))
      [] z > 86 -> Info("El" \o ToString(z), 7, z - 86, R(1))

\* init_periodic_table_ui: the rectangle of the cell of element z.
TABLE_CELLS(z) ==
    LET total_cols == 18
        table_width == total_cols * HOST_CELL_SIZE
        x_offset == (SIM_WIDTH - table_width) \div 2
        y_offset == SIM_HEIGHT
        data == PERIODIC_TABLE_INFO(z)
    IN  [x |-> x_offset + (data.col - 1) * HOST_CELL_SIZE,
         y |-> y_offset + (data.row - 1) * HOST_CELL_SIZE,
         w |-> HOST_CELL_SIZE - CELL_MARGIN,
         h |-> HOST_CELL_SIZE - CELL_MARGIN]

collidepoint(rect, mx, my) ==
    /\ rect.x <= mx /\ mx < rect.x + rect.w
    /\ rect.y <= my /\ my < rect.y + rect.h

\* main.py's Particle(x, y, atomic_number); every atomic number the table
\* can select has an entry.
HostParticle(x, y, atomic_number) ==
    LET info == PERIODIC_TABLE_INFO(atomic_number)
        area == RMul(PI, R(info.radius * info.radius))
    IN  [symbol |-> info.symbol, density |-> info.density,
         radius |-> info.radius,
         mass |-> RMul(RMul(info.density, area), R(MASS_SCALE)),
         x |-> R(x), y |-> R(y), vx |-> R(0), vy |-> R(0)]

\* Where the mouse clicks: two places of the simulation area, the cells of
\* H, Li and Be and a place of the panel that has no cell.
MouseX == {300, 320}
MouseY == {500, 1030, 1070}

\* The longest list the model follows; the code has no bound of its own.
MaxSpawn == 3

\* A MOUSEBUTTONDOWN event: a click in the simulation area appends a
\* particle of the selected element, a click in the panel selects the first
\* cell of the table that holds the point.
MouseButtonDown ==
    /\ pc = "events"
    /\ \E mx \in MouseX, my \in MouseY :
         IF my < SIM_HEIGHT
         THEN /\ Len(particles) < MaxSpawn
              /\ particles' = Append(particles, HostParticle(mx, my, current_atomic_num))
              /\ UNCHANGED current_atomic_num
         ELSE LET hit == { z \in 1..TableSize : collidepoint(TABLE_CELLS(z), mx, my) }
              IN  /\ current_atomic_num' =
                        IF hit = {} THEN current_atomic_num
                        ELSE CHOOSE z \in hit : \A y \in hit : z <= y
                  /\ UNCHANGED particles
    /\ UNCHANGED <<candidate_pairs, colliding_pairs, pc, pre, log, bounced,
                   dt, main_width, main_height, precision, host>>

\* A QUIT event ends the loop.
Quit ==
    /\ pc = "events"
    /\ pc' = "quit"
    /\ UNCHANGED <<particles, candidate_pairs, colliding_pairs, pre, log,
                   bounced, frame>>

\* main() up to its loop: an empty list and hydrogen selected.
InitHost ==
    /\ particles = << >>
    /\ pre = << >>
    /\ candidate_pairs = << >>
    /\ colliding_pairs = {}
    /\ pc = "events"
    /\ log = << >>
    /\ bounced = << >>
    /\ dt = R(0)
    /\ main_width = SIM_WIDTH
    /\ main_height = SIM_HEIGHT
    /\ current_atomic_num = 1
    /\ precision = 0
    /\ host = HostIdle

NextHost == MouseButtonDown \/ Quit

SpecHost == InitHost /\ [][NextHost]_vars

---------------------------------------------------------------------------
(* main.py, the physics of the host's own Particle class and the frame     *)
(* loop of main().  The arithmetic is the floating point of Fl.            *)

HOST_GRAVITY == Q(980665, 100000)
AIR_DENSITY == Q(1225, 1000000)
DRAG_COEFFICIENT == Q(1, 2)
PIXELS_PER_METER == R(1)
NUM_SUBSTEPS == 4

FDiv(a, b) == FMul(a, Q(b.d, b.n))

\* m / den^2 with m brought into the range where its integer root has more
\* digits than a float keeps.
RECURSIVE SqrtScale(_, _)
SqrtScale(m, den) ==
    IF m < 67108864 THEN SqrtScale(4 * m, 2 * den) ELSE [m |-> m, den |-> den]

\* math.sqrt of a float a > 0 (its denominator is a power of two): the root
\* rounded to a float.  An inexact integer root stands for a value strictly
\* between it and the next integer, which rounds as the midpoint does.
FSqrt(a) ==
    LET even == ISqrt(a.d) * ISqrt(a.d) = a.d
        sc == IF even THEN SqrtScale(a.n, ISqrt(a.d))
              ELSE SqrtScale(2 * a.n, ISqrt(2 * a.d))
        s == ISqrt(sc.m)
    IN  IF s * s = sc.m THEN Fl(Q(s, sc.den))
        ELSE Fl(Q(2 * s + 1, 2 * sc.den))

\* Particle.apply_forces of main.py: gravity, buoyancy and quadratic drag.
host_apply_forces(p, sdt) ==
    LET F_gravity == FMul(p.mass, Fl(HOST_GRAVITY))
        area == FMul(Fl(PI), R(p.radius * p.radius))
        F_buoy == FMul(FMul(FMul(Fl(AIR_DENSITY), area), Fl(HOST_GRAVITY)),
                       Fl(R(MASS_SCALE)))
        F_net_vertical == FSub(F_gravity, F_buoy)
        speed_sq == FAdd(FMul(p.vx, p.vx), FMul(p.vy, p.vy))
        moving == RLt(R(0), speed_sq)
        speed == FSqrt(speed_sq)
        F_drag == FMul(FMul(FMul(FMul(FMul(Q(1, 2), Fl(AIR_DENSITY)),
                                      DRAG_COEFFICIENT), area), speed_sq),
                       Fl(R(MASS_SCALE)))
        drag_dx == IF moving THEN FMul(RNeg(F_drag), FDiv(p.vx, speed)) ELSE R(0)
        drag_dy == IF moving THEN FMul(RNeg(F_drag), FDiv(p.vy, speed)) ELSE R(0)
        ax == FDiv(drag_dx, p.mass)
        ay == FDiv(FAdd(F_net_vertical, drag_dy), p.mass)
    IN  [p EXCEPT !.vx = FAdd(@, FMul(ax, sdt)), !.vy = FAdd(@, FMul(ay, sdt))]

\* Particle.update_position of main.py: the move, then the four walls one
\* after the other, each on what the one before left.
HostMoved(p, sdt) ==
    [p EXCEPT !.x = FAdd(@, FMul(FMul(p.vx, sdt), PIXELS_PER_METER)),
              !.y = FAdd(@, FMul(FMul(p.vy, sdt), PIXELS_PER_METER))]

HostFloor(p) ==
    IF ~RLt(FAdd(p.y, R(p.radius)), R(SIM_HEIGHT))
    THEN [p EXCEPT !.y = R(SIM_HEIGHT - p.radius), !.vy = FMul(Q(-1, 2), @)]
    ELSE p

HostTop(p) ==
    IF RLt(FSub(p.y, R(p.radius)), R(0))
    THEN [p EXCEPT !.y = R(p.radius), !.vy = FMul(Q(-1, 2), @)]
    ELSE p

HostLeft(p) ==
    IF RLt(FSub(p.x, R(p.radius)), R(0))
    THEN [p EXCEPT !.x = R(p.radius), !.vx = FMul(Q(-1, 2), @)]
    ELSE p

HostRight(p) ==
    IF RLt(R(SIM_WIDTH), FAdd(p.x, R(p.radius)))
    THEN [p EXCEPT !.x = R(SIM_WIDTH - p.radius), !.vx = FMul(Q(-1, 2), @)]
    ELSE p

host_update_position(p, sdt) ==
    HostRight(HostLeft(HostTop(HostFloor(HostMoved(p, sdt)))))

\* One iteration of the double loop of main.py's resolve_collisions, on
\* the particles at i and j of ps.
HostExchange(ps, i, j, p1, p2, nx, ny, dot) ==
    LET m1 == p1.mass
        m2 == p2.mass
        coeff1 == FMul(FDiv(FMul(R(2), m2), FAdd(m1, m2)), dot)
        coeff2 == FMul(FDiv(FMul(R(2), m1), FAdd(m1, m2)), dot)
    IN  IF RLt(R(0), dot) THEN [ps EXCEPT ![i] = p1, ![j] = p2]
        ELSE [ps EXCEPT
                ![i] = [p1 EXCEPT !.vx = FSub(@, FMul(coeff1, nx)),
                                  !.vy = FSub(@, FMul(coeff1, ny))],
                ![j] = [p2 EXCEPT !.vx = FAdd(@, FMul(coeff2, nx)),
                                  !.vy = FAdd(@, FMul(coeff2, ny))]]

HostSeparate(ps, i, j, dx, dy, dist) ==
    LET p1 == ps[i]
        p2 == ps[j]
        overlap == FSub(R(p1.radius + p2.radius), dist)
        nx == FDiv(dx, dist)
        ny == FDiv(dy, dist)
        q1 == [p1 EXCEPT !.x = FSub(@, FMul(FMul(nx, overlap), Q(1, 2))),
                         !.y = FSub(@, FMul(FMul(ny, overlap), Q(1, 2)))]
        q2 == [p2 EXCEPT !.x = FAdd(@, FMul(FMul(nx, overlap), Q(1, 2))),
                         !.y = FAdd(@, FMul(FMul(ny, overlap), Q(1, 2)))]
    IN  HostExchange(ps, i, j, q1, q2, nx, ny,
                     FAdd(FMul(FSub(p1.vx, p2.vx), nx),
                          FMul(FSub(p1.vy, p2.vy), ny)))

HostPair(ps, i, j) ==
    LET p1 == ps[i]
        p2 == ps[j]
        dx == FSub(p2.x, p1.x)
        dy == FSub(p2.y, p1.y)
        dist_sq == FAdd(FMul(dx, dx), FMul(dy, dy))
        min_dist == p1.radius + p2.radius
    IN  IF RLt(dist_sq, R(min_dist * min_dist))
        THEN HostSeparate(ps, i, j, dx, dy,
                          IF dist_sq = R(0) \/ RLt(FSqrt(dist_sq), EPSILON)
                          THEN EPSILON ELSE FSqrt(dist_sq))
        ELSE ps

RECURSIVE HostResolveJ(_, _, _)
HostResolveJ(ps, i, j) ==
    IF j > Len(ps) THEN ps
    ELSE HostResolveJ(HostPair(ps, i, j), i, j + 1)

RECURSIVE HostResolveI(_, _)
HostResolveI(ps, i) ==
    IF i > Len(ps) THEN ps
    ELSE HostResolveI(HostResolveJ(ps, i, i + 1), i + 1)

host_resolve_collisions(ps) == HostResolveI(ps, 1)

\* sub_dt = dt / NUM_SUBSTEPS
sub_dt == FDiv(dt, R(NUM_SUBSTEPS))

Called(name, i) == [call |-> name, i |-> i]

\* The bounds of the frames followed: the frames per run, the particles in
\* the list, and the significant bits of the floats.
MaxFrames == 2
MaxBodies == 2
HostBits == 8

\* clock.tick(FPS) returns the milliseconds since the last call, 16 or 17
\* at 60 frames a second.
TickMillis == {16, 17}

\* The top of the while loop: dt = clock.tick(FPS) / 1000.0.
Tick ==
    /\ pc = "tick"
    /\ host.frames < MaxFrames
    /\ \E ms \in TickMillis : dt' = FDiv(R(ms), R(1000))
    /\ pc' = "events"
    /\ host' = [frames |-> host.frames + 1, substep |-> 0, cursor |-> 1,
                calls |-> << >>]
    /\ UNCHANGED <<particles, candidate_pairs, colliding_pairs, pre, log,
                   bounced, main_width, main_height, current_atomic_num,
                   precision>>

\* The event list is exhausted: range(NUM_SUBSTEPS) starts and with it
\* the first loop over the particles.
EndEvents ==
    /\ pc = "events"
    /\ pc' = "host_forces"
    /\ host' = [host EXCEPT !.substep = 0, !.cursor = 1]
    /\ UNCHANGED <<particles, candidate_pairs, colliding_pairs, pre, log,
                   bounced, dt, main_width, main_height, current_atomic_num,
                   precision>>

\* Mutant of HostApplyForces: the two loops fused, each particle is moved
\* as soon as its forces are applied.
HostApplyForces_fused ==
    /\ pc = "host_forces"
    /\ host.cursor <= Len(particles)
    /\ particles' = [particles EXCEPT
                       ![host.cursor] =
                           host_update_position(host_apply_forces(@, sub_dt),
                                                sub_dt)]
    /\ host' = [host EXCEPT
                  !.cursor = @ + 1,
                  !.calls = @ \o << Called("apply_forces", host.cursor),
                                    Called("update_position", host.cursor) >>]
    /\ UNCHANGED <<candidate_pairs, colliding_pairs, pc, pre, log, bounced,
                   dt, main_width, main_height, current_atomic_num, precision>>

\* for p in particles: p.apply_forces(sub_dt), one particle a step.
HostApplyForces ==
    /\ pc = "host_forces"
    /\ host.cursor <= Len(particles)
    /\ particles' = [particles EXCEPT
                       ![host.cursor] = host_apply_forces(@, sub_dt)]
    /\ host' = [host EXCEPT
                  !.cursor = @ + 1,
                  !.calls = Append(@, Called("apply_forces", host.cursor))]
    /\ UNCHANGED <<candidate_pairs, colliding_pairs, pc, pre, log, bounced,
                   dt, main_width, main_height, current_atomic_num, precision>>

ForcesDone ==
    /\ pc = "host_forces"
    /\ host.cursor > Len(particles)
    /\ pc' = "host_positions"
    /\ host' = [host EXCEPT !.cursor = 1]
    /\ UNCHANGED <<particles, candidate_pairs, colliding_pairs, pre, log,
                   bounced, dt, main_width, main_height, current_atomic_num,
                   precision>>

\* for p in particles: p.update_position(sub_dt), one particle a step.
HostUpdatePosition ==
    /\ pc = "host_positions"
    /\ host.cursor <= Len(particles)
    /\ particles' = [particles EXCEPT
                       ![host.cursor] = host_update_position(@, sub_dt)]
    /\ host' = [host EXCEPT
                  !.cursor = @ + 1,
                  !.calls = Append(@, Called("update_position", host.cursor))]
    /\ UNCHANGED <<candidate_pairs, colliding_pairs, pc, pre, log, bounced,
                   dt, main_width, main_height, current_atomic_num, precision>>

PositionsDone ==
    /\ pc = "host_positions"
    /\ host.cursor > Len(particles)
    /\ pc' = "host_resolve"
    /\ host' = [host EXCEPT !.cursor = 1]
    /\ UNCHANGED <<particles, candidate_pairs, colliding_pairs, pre, log,
                   bounced, dt, main_width, main_height, current_atomic_num,
                   precision>>

\* resolve_collisions(particles), then the next round of range(NUM_SUBSTEPS)
\* or, after the last, screen.fill and the loop that draws.
HostResolveCollisions ==
    /\ pc = "host_resolve"
    /\ particles' = host_resolve_collisions(particles)
    /\ pc' = IF host.substep + 1 < NUM_SUBSTEPS THEN "host_forces" ELSE "draw"
    /\ host' = [host EXCEPT
                  !.substep = @ + 1,
                  !.cursor = 1,
                  !.calls = Append(@, Called("resolve_collisions", 0))]
    /\ UNCHANGED <<candidate_pairs, colliding_pairs, pre, log, bounced, dt,
                   main_width, main_height, current_atomic_num, precision>>

\* for p in particles: p.draw(screen), one particle a step.
Draw ==
    /\ pc = "draw"
    /\ host.cursor <= Len(particles)
    /\ host' = [host EXCEPT
                  !.cursor = @ + 1,
                  !.calls = Append(@, Called("draw", host.cursor))]
    /\ UNCHANGED <<particles, candidate_pairs, colliding_pairs, pc, pre, log,
                   bounced, dt, main_width, main_height, current_atomic_num,
                   precision>>

\* draw_periodic_table and pygame.display.flip(): the frame is over.
Flip ==
    /\ pc = "draw"
    /\ host.cursor > Len(particles)
    /\ pc' = "tick"
    /\ host' = [host EXCEPT !.cursor = 1]
    /\ UNCHANGED <<particles, candidate_pairs, colliding_pairs, pre, log,
                   bounced, dt, main_width, main_height, current_atomic_num,
                   precision>>

\* What the clicks of a frame spawn: hydrogen, which is lighter than the air
\* and rises, and oxygen, which sinks, 10 apart (closer than two radii) and
\* within a radius of the floor.
BodyX == {300, 310}
BodyY == 1016
BodyElements == {1, 8}

\* self.x = float(x) and the float the mass is.
Floated(p) == [p EXCEPT !.x = Fl(@), !.y = Fl(@), !.mass = Fl(@)]

\* The first frame after its event loop has handled the clicks: up to
\* MaxBodies particles just spawned, still at rest.
InitFrame ==
    \E n \in 0..MaxBodies :
        \E xs \in [1..n -> BodyX], zs \in [1..n -> BodyElements],
           ms \in TickMillis :
            /\ precision = HostBits
            /\ particles = [i \in 1..n |-> Floated(HostParticle(xs[i], BodyY, zs[i]))]
            /\ pre = particles
            /\ candidate_pairs = << >>
            /\ colliding_pairs = {}
            /\ pc = "events"
            /\ log = << >>
            /\ bounced = << >>
            /\ dt = FDiv(R(ms), R(1000))
            /\ main_width = SIM_WIDTH
            /\ main_height = SIM_HEIGHT
            /\ current_atomic_num = 1
            /\ host = [HostIdle EXCEPT !.frames = 1]

NextFrame ==
    \/ Tick
    \/ Quit
    \/ EndEvents
    \/ HostApplyForces
    \/ ForcesDone
    \/ HostUpdatePosition
    \/ PositionsDone
    \/ HostResolveCollisions
    \/ Draw
    \/ Flip

SpecFrame == InitFrame /\ [][NextFrame]_vars

---------------------------------------------------------------------------
(* Vocabulary of the properties.                                           *)

RECURSIVE SumOver(_, _, _)
SumOver(seq, F(_), k) ==
    IF k > Len(seq) THEN R(0) ELSE RAdd(F(seq[k]), SumOver(seq, F, k + 1))

MassOf(seq) == SumOver(seq, LAMBDA p : p.mass, 1)
MomentumX(seq) == SumOver(seq, LAMBDA p : RMul(p.mass, p.vx), 1)
MomentumY(seq) == SumOver(seq, LAMBDA p : RMul(p.mass, p.vy), 1)
Energy(seq) ==
    SumOver(seq, LAMBDA p : RMul(p.mass, RAdd(RMul(p.vx, p.vx), RMul(p.vy, p.vy))), 1)

IdsOf(seq) == { seq[k].id : k \in 1..Len(seq) }
SymbolsOf(seq) == [k \in 1..Len(seq) |-> seq[k].symbol]

\* The multiset of the symbols of a sequence of symbols.
BagOf(syms) == [s \in { syms[k] : k \in 1..Len(syms) } |-> Count(syms, s)]

MutuallyOverlapping(seq) ==
    \A a \in 1..Len(seq), b \in 1..Len(seq) :
        a < b => are_colliding(seq[a], seq[b])

Consumed == UNION { IdsOf(log[k].reactants) : k \in 1..Len(log) }

\* The reaction table of the design (section 4.4).
Row(reactants, product, count) ==
    [reactants |-> BagOf(reactants), product |-> product, count |-> count]

ReactionTable ==
    { Row(<<"H", "H">>, "H2", 1), Row(<<"N", "N">>, "N2", 1),
      Row(<<"O", "O">>, "O2", 1), Row(<<"He", "He">>, "He2", 1),
      Row(<<"Li", "Li">>, "Li2", 1), Row(<<"Be", "Be">>, "Be2", 1),
      Row(<<"B", "B">>, "B2", 1), Row(<<"F", "F">>, "F2", 1),
      Row(<<"C", "O2">>, "CO2", 1), Row(<<"CO", "O">>, "CO2", 1),
      Row(<<"N", "O">>, "NO", 1), Row(<<"He", "H">>, "HeH", 1),
      Row(<<"Li", "H">>, "LiH", 1), Row(<<"Be", "O">>, "BeO", 1),
      Row(<<"B", "F">>, "BF", 1), Row(<<"Ne", "F">>, "NeF", 1),
      Row(<<"N2", "O2">>, "NO", 2),
      Row(<<"H2", "H2", "O2">>, "H2O", 2),
      Row(<<"N2", "N2", "O2">>, "N2O", 2),
      Row(<<"N2", "H2", "H2", "H2">>, "NH3", 2) }

\* The row a logged reaction carried out, as the table would write it.
RowOf(e) ==
    [reactants |-> BagOf(SymbolsOf(e.reactants)),
     product |-> e.products[1].symbol,
     count |-> Len(e.products)]

\* Every distance do_elastic_bounce took the root of was the square of a
\* rational: the bounce of the model is the exact one.
DistancesExact == \A k \in 1..Len(bounced) : bounced[k].exact

---------------------------------------------------------------------------
(* C1: within one call of resolve_collisions every particle is a reactant  *)
(* of at most one reaction: no two matches, of the same pass or of         *)
(* different passes, share a particle.                                     *)
C1_EachParticleReactsOnce ==
    \A a \in 1..Len(log), b \in 1..Len(log) :
        a # b => IdsOf(log[a].reactants) \cap IdsOf(log[b].reactants) = {}

(* C2: every reaction fires on a group of particles in which every pair    *)
(* overlaps, in every pass of the pipeline.                                *)
C2_ReactantsAllOverlap ==
    \A k \in 1..Len(log) : MutuallyOverlapping(log[k].reactants)

(* C3: for every reaction of every pass (the log of the finished call) the *)
(* masses of the products add up to exactly the masses of the reactants.   *)
C3_MassConserved ==
    pc = "done" =>
        \A k \in 1..Len(log) : MassOf(log[k].products) = MassOf(log[k].reactants)

\* A call in which a one-product and a two-product reaction were both made.
C3_Witness ==
    /\ pc = "done"
    /\ \E a \in 1..Len(log), b \in 1..Len(log) :
         /\ Len(log[a].products) = 1
         /\ Len(log[b].products) = 2
         /\ MassOf(log[b].reactants) # R(0)

(* C4: for every reaction of every pass (the log of the finished call) the *)
(* momentum of the products equals the momentum of the reactants on each   *)
(* axis, and every product gets the velocity combined momentum / combined  *)
(* mass, so two products get the same one.                                 *)
C4_MomentumConserved ==
    pc = "done" =>
        \A k \in 1..Len(log) :
            LET e == log[k]
            IN  /\ MomentumX(e.products) = MomentumX(e.reactants)
                /\ MomentumY(e.products) = MomentumY(e.reactants)
                /\ \A m \in 1..Len(e.products) :
                     /\ e.products[m].vx =
                            RDiv(MomentumX(e.reactants), MassOf(e.reactants))
                     /\ e.products[m].vy =
                            RDiv(MomentumY(e.reactants), MassOf(e.reactants))

\* A two-product reaction of reactants of different masses and velocities,
\* with momentum on both axes.
C4_Witness ==
    /\ pc = "done"
    /\ \E k \in 1..Len(log) :
         /\ Len(log[k].products) = 2
         /\ MomentumX(log[k].reactants) # R(0)
         /\ MomentumY(log[k].reactants) # R(0)
         /\ \E a \in 1..Len(log[k].reactants), b \in 1..Len(log[k].reactants) :
              /\ log[k].reactants[a].vx # log[k].reactants[b].vx
              /\ log[k].reactants[a].vy # log[k].reactants[b].vy
              /\ log[k].reactants[a].mass # log[k].reactants[b].mass

(* C5: two overlapping particles of equal mass that approach each other    *)
(* head-on along the line of their centres with velocities +v and -v leave *)
(* do_elastic_bounce with their velocities exchanged.                      *)
HeadOn(b) ==
    LET p1 == b.before[1]
        p2 == b.before[2]
        dx == RSub(p2.x, p1.x)
        dy == RSub(p2.y, p1.y)
    IN  /\ p1.mass = p2.mass
        /\ p1.vx = RSub(R(0), p2.vx)
        /\ p1.vy = RSub(R(0), p2.vy)
        /\ RMul(p1.vx, dy) = RMul(p1.vy, dx)
        /\ RLt(R(0), RAdd(RMul(RSub(p1.vx, p2.vx), dx),
                          RMul(RSub(p1.vy, p2.vy), dy)))

Exchanged(b) ==
    /\ b.after[1].vx = b.before[2].vx
    /\ b.after[1].vy = b.before[2].vy
    /\ b.after[2].vx = b.before[1].vx
    /\ b.after[2].vy = b.before[1].vy

C5_HeadOnExchange ==
    \A k \in 1..Len(bounced) : HeadOn(bounced[k]) => Exchanged(bounced[k])

(* C6: every pair do_elastic_bounce handles keeps its total momentum on    *)
(* each axis and its total kinetic energy, whether or not the velocity     *)
(* update is made.                                                         *)
C6_BounceConserves ==
    \A k \in 1..Len(bounced) :
        LET b == bounced[k]
        IN  /\ MomentumX(b.after) = MomentumX(b.before)
            /\ MomentumY(b.after) = MomentumY(b.before)
            /\ Energy(b.after) = Energy(b.before)

\* A pair of different masses, centres on an oblique line, whose velocities
\* the bounce changed.
C6_Witness ==
    \E k \in 1..Len(bounced) :
        LET b == bounced[k]
        IN  /\ b.hit
            /\ b.before[1].mass # b.before[2].mass
            /\ b.before[1].x # b.before[2].x
            /\ b.before[1].y # b.before[2].y
            /\ b.after[1].vx # b.before[1].vx
            /\ b.after[2].vy # b.before[2].vy

(* C7: when every radius sum is at most CELL_SIZE, every index pair i < j  *)
(* whose circles overlap is in the list build_spatial_grid returns.        *)
InCandidates(i, j) ==
    \E k \in 1..Len(candidate_pairs) : candidate_pairs[k] = <<i, j>>

C7_BroadphaseComplete ==
    pc \in {"detect", "diatomic"} =>
        \A i \in 1..Len(particles), j \in 1..Len(particles) :
            (/\ i < j
             /\ particles[i].radius + particles[j].radius <= CELL_SIZE
             /\ are_colliding(particles[i], particles[j]))
            => InCandidates(i, j)

\* Two overlapping particles whose radii add up to CELL_SIZE, in cells that
\* touch only at a corner, the one of the higher cell first in the list.
C7_Witness ==
    /\ pc = "detect"
    /\ \E i \in 1..Len(particles), j \in 1..Len(particles) :
         /\ i < j
         /\ particles[i].radius + particles[j].radius = CELL_SIZE
         /\ are_colliding(particles[i], particles[j])
         /\ CellOf(particles[i])[1] = CellOf(particles[j])[1] + 1
         /\ CellOf(particles[i])[2] = CellOf(particles[j])[2] - 1
         /\ InCandidates(i, j)

(* C8: every reaction consumes a group whose multiset of symbols is the    *)
(* reactant multiset of a row of the reaction table and emits that row's   *)
(* product, as many times as the row says (read off the log when the call  *)
(* ends); when no mutually overlapping group of the list matches a row,    *)
(* the list after the four passes is the list the call was entered with.   *)
Groups(n) == { G \in SUBSET (1..n) : Cardinality(G) \in 2..4 }

GroupSeq(ps, G) == [k \in 1..Cardinality(G) |->
                      ps[CHOOSE i \in G : Cardinality({ m \in G : m < i }) = k - 1]]

Matches(seq) ==
    \E row \in ReactionTable : row.reactants = BagOf(SymbolsOf(seq))

SomeGroupMatches(ps) ==
    \E G \in Groups(Len(ps)) :
        MutuallyOverlapping(GroupSeq(ps, G)) /\ Matches(GroupSeq(ps, G))

C8_ReactionsFollowTable ==
    /\ pc = "done" =>
         \A k \in 1..Len(log) :
             /\ RowOf(log[k]) \in ReactionTable
             /\ \A m \in 1..Len(log[k].products) :
                  log[k].products[m].symbol = log[k].products[1].symbol
    /\ (pc = "regrid" /\ ~SomeGroupMatches(pre)) =>
         (log = << >> /\ particles = pre)

\* A call that made a reaction and left alone an overlapping pair that
\* matches no row.
C8_Witness ==
    /\ pc = "done"
    /\ log # << >>
    /\ \E i \in 1..Len(pre), j \in 1..Len(pre) :
         /\ i < j
         /\ are_colliding(pre[i], pre[j])
         /\ ~Matches(<<pre[i], pre[j]>>)
         /\ {pre[i].id, pre[j].id} \cap Consumed = {}
         /\ {pre[i].id, pre[j].id} \subseteq IdsOf(particles)

(* C9: an overlapping N2 and O2 of which neither is consumed by another    *)
(* reaction are both removed and two NO particles are added.               *)
C9_NitrogenOxygen ==
    pc = "done" =>
        \A i \in 1..Len(pre), j \in 1..Len(pre) :
            (/\ {pre[i].symbol, pre[j].symbol} = {"N2", "O2"}
             /\ are_colliding(pre[i], pre[j])
             /\ \A k \in 1..Len(log) :
                  /\ pre[i].id \notin IdsOf(log[k].reactants)
                  /\ pre[j].id \notin IdsOf(log[k].reactants))
            => (/\ {pre[i].id, pre[j].id} \cap IdsOf(particles) = {}
                /\ Cardinality({ k \in 1..Len(particles) :
                                   particles[k].symbol = "NO" }) >= 2)

(* C10: a list of exactly two overlapping particles whose species are the  *)
(* reactants of a one-product pairwise rule ends the call as one particle  *)
(* of the rule's product species, with the summed mass and the             *)
(* mass-weighted mean velocity.                                            *)
OneProductRow(s1, s2) ==
    { row \in ReactionTable :
        row.count = 1 /\ row.reactants = BagOf(<<s1, s2>>) }

C10_PairBecomesOne ==
    (/\ pc = "done"
     /\ Len(pre) = 2
     /\ are_colliding(pre[1], pre[2])
     /\ OneProductRow(pre[1].symbol, pre[2].symbol) # {})
    => (/\ Len(particles) = 1
        /\ \E row \in OneProductRow(pre[1].symbol, pre[2].symbol) :
             particles[1].symbol = row.product
        /\ particles[1].mass = RAdd(pre[1].mass, pre[2].mass)
        /\ particles[1].vx = RDiv(MomentumX(pre), MassOf(pre))
        /\ particles[1].vy = RDiv(MomentumY(pre), MassOf(pre)))

\* A Be and an O at different velocities that became one BeO.
C10_Witness ==
    /\ pc = "done"
    /\ Len(pre) = 2
    /\ are_colliding(pre[1], pre[2])
    /\ pre[1].symbol = "Be" /\ pre[2].symbol = "O"
    /\ pre[1].vx # pre[2].vx
    /\ pre[1].vy # pre[2].vy
    /\ Len(particles) = 1
    /\ particles[1].symbol = "BeO"

(* C11: a list that is exactly one mutually overlapping group of three or  *)
(* four particles matching a two-product row, in any list order, ends the  *)
(* call as exactly two particles of the row's product species, each with   *)
(* half the combined mass of the reactants.                                *)
TwoProductRow(ps) ==
    { row \in ReactionTable :
        row.count = 2 /\ row.reactants = BagOf(SymbolsOf(ps)) }

C11_GroupBecomesTwo ==
    (/\ pc = "done"
     /\ Len(pre) \in {3, 4}
     /\ MutuallyOverlapping(pre)
     /\ TwoProductRow(pre) # {})
    => (/\ Len(particles) = 2
        /\ \A m \in 1..2 :
             /\ \E row \in TwoProductRow(pre) : particles[m].symbol = row.product
             /\ particles[m].mass = RDiv(MassOf(pre), R(2)))

\* One N2 that is not the first of the list and three H2, on one site and
\* on two, that became two NH3.
C11_Witness ==
    /\ pc = "done"
    /\ Len(pre) = 4
    /\ pre[1].symbol = "H2"
    /\ \E k \in 2..4 : pre[k].symbol = "N2" /\ pre[k].x # pre[1].x
    /\ MutuallyOverlapping(pre)
    /\ Len(particles) = 2
    /\ particles[1].symbol = "NH3" /\ particles[2].symbol = "NH3"

(* C12: a particle released at rest above the floor and stepped with a     *)
(* fixed dt that is small (what gravity adds to vy in one step, halved by  *)
(* the floor, is below the snap speed 1: GRAVITY * dt < 2) eventually ends *)
(* a step at y = main_height - radius with vy = 0, and from then on ends   *)
(* every step in that state.                                               *)
Resting ==
    /\ particles[1].y = R(main_height - particles[1].radius)
    /\ particles[1].vy = R(0)

SmallStep == dt \in { step \in DropSteps : RLt(RMul(GRAVITY, step), R(2)) }

C13_SpeedCapped ==
    pc = "position" =>
        \A i \in 1..Len(particles) :
            ~SpeedSqAbove(particles[i].vx, particles[i].vy, MAX_SPEED_SQ)

\* A particle whose mass and radius are those of the registry entry of its
\* symbol.
Consistent(p) ==
    p.mass = R(Registry(p.symbol).mass) /\ p.radius = Registry(p.symbol).radius

AllConsistent(seq) == \A k \in 1..Len(seq) : Consistent(seq[k])

\* C14: if every particle of the list enters resolve_collisions with the
\* mass and radius of the registry entry of its symbol, then every particle
\* of the list the call leaves, reaction products included, has the mass
\* and radius of the registry entry of its symbol, and a particle that is
\* still in the list has the symbol it entered with.
C14_RegistryConsistent ==
    (pc = "done" /\ AllConsistent(pre)) =>
        /\ AllConsistent(particles)
        /\ \A i \in 1..Len(particles), j \in 1..Len(pre) :
               particles[i].id = pre[j].id => particles[i].symbol = pre[j].symbol

\* A finished call that left a product of a two-product reaction next to a
\* particle it entered with.
C14_Witness ==
    /\ pc = "done"
    /\ AllConsistent(pre)
    /\ \E a \in 1..Len(log) :
         Len(log[a].products) = 2 /\ log[a].products[1].id \in IdsOf(particles)
    /\ IdsOf(particles) \cap IdsOf(pre) # {}

\* C15: the host holds the particle count under a ceiling: a spawn request
\* made when the list holds the ceiling number of particles is ignored, so
\* that, whatever the ceiling is, the list stays shorter than the longest
\* list the model follows.
C15_SpawnCeiling == pc \in {"events", "quit"} => Len(particles) < MaxSpawn

\* A handled pair whose centres move apart: the distance between the
\* centres is increasing.
Separating(b) ==
    LET p1 == b.before[1]
        p2 == b.before[2]
    IN  RLt(R(0), RAdd(RMul(RSub(p2.vx, p1.vx), RSub(p2.x, p1.x)),
                       RMul(RSub(p2.vy, p1.vy), RSub(p2.y, p1.y))))

SameVelocities(b) ==
    \A s \in 1..2 : b.after[s].vx = b.before[s].vx /\ b.after[s].vy = b.before[s].vy

\* C16: an overlapping pair that is moving apart along the line of its
\* centres leaves do_elastic_bounce with both velocities unchanged; only
\* the positions are corrected.
C16_SeparatingKeepsVelocity ==
    \A k \in 1..Len(bounced) : Separating(bounced[k]) => SameVelocities(bounced[k])

\* The squared distance of the centres of a pair of particles.
DistSq(pair) ==
    LET dx == RSub(pair[2].x, pair[1].x)
        dy == RSub(pair[2].y, pair[1].y)
    IN  RAdd(RMul(dx, dx), RMul(dy, dy))

\* The squared length of the move of particle s of a handled pair.
MoveSq(b, s) ==
    LET mx == RSub(b.after[s].x, b.before[s].x)
        my == RSub(b.after[s].y, b.before[s].y)
    IN  RAdd(RMul(mx, mx), RMul(my, my))

RadiusSum(b) == R(b.before[1].radius + b.before[2].radius)

\* Half the overlap of a handled pair whose centre distance is rational.
HalfOverlap(b) == RMul(RSub(RadiusSum(b), RSqrt(DistSq(b.before))), Q(1, 2))

\* C17: every pair do_elastic_bounce handles, a pair of coincident centres
\* included, is exactly tangent after its positional correction, each of
\* the two particles having moved by half the overlap.  (Stated for the
\* pairs whose centre distance is rational, where the correction is exact.)
C17_TangentAfterCorrection ==
    \A k \in 1..Len(bounced) :
        bounced[k].exact =>
            /\ DistSq(bounced[k].after) = RMul(RadiusSum(bounced[k]), RadiusSum(bounced[k]))
            /\ \A s \in 1..2 :
                 MoveSq(bounced[k], s) = RMul(HalfOverlap(bounced[k]), HalfOverlap(bounced[k]))

\* C18: the total mass of the particle list is unchanged by
\* resolve_collisions, for every list and every geometry, clusters in which
\* one particle overlaps several partners included: the masses of the list
\* the call leaves add up to the masses of the list it was given.
C18_TotalMassUnchanged == pc = "done" => MassOf(particles) = MassOf(pre)

\* The reactions of one pass, the list positions the pass deletes and the
\* number of particles it appends.
PassNames == {"diatomic", "extra", "triple", "quad"}

ReactionsOf(pass) == { k \in 1..Len(log) : log[k].pass = pass }

DeletedBy(pass) ==
    UNION { { log[k].idx[s] : s \in 1..Len(log[k].idx) } : k \in ReactionsOf(pass) }

RECURSIVE AppendedFrom(_, _)
AppendedFrom(pass, k) ==
    IF k > Len(log) THEN 0
    ELSE (IF log[k].pass = pass THEN Len(log[k].products) ELSE 0)
         + AppendedFrom(pass, k + 1)

\* C19: reactions never grow the particle list: no reaction pass appends
\* more particles than it deletes, and the list the whole call leaves is
\* not longer than the list it was given.
C19_ReactionsNeverGrow ==
    /\ \A pass \in PassNames : AppendedFrom(pass, 1) <= Cardinality(DeletedBy(pass))
    /\ pc = "done" => Len(particles) <= Len(pre)

\* C20: a product created by a reaction pass of a call is not a reactant of
\* a later reaction pass of the same call.
C20_ProductsNotConsumed ==
    pc = "done" =>
        \A a \in 1..Len(log), b \in 1..Len(log) :
            IdsOf(log[a].products) \cap IdsOf(log[b].reactants) = {}

\* C21: build_spatial_grid returns every candidate pair as (i, j) with
\* i < j and returns no pair twice, whether the two particles share a cell
\* or sit in adjacent cells.
C21_CandidatesOnceAndOrdered ==
    pc = "detect" =>
        /\ \A k \in 1..Len(candidate_pairs) :
               candidate_pairs[k][1] < candidate_pairs[k][2]
        /\ \A k \in 1..Len(candidate_pairs), m \in 1..Len(candidate_pairs) :
               k # m => candidate_pairs[k] # candidate_pairs[m]

\* A list of which one pair shares a cell and another sits in two
\* adjacent cells, the particle of the higher index in the cell visited
\* first.
C21_Witness ==
    /\ pc = "detect"
    /\ \E k \in 1..Len(candidate_pairs) :
         CellOf(particles[candidate_pairs[k][1]]) = CellOf(particles[candidate_pairs[k][2]])
    /\ \E m \in 1..Len(candidate_pairs) :
         /\ CellOf(particles[candidate_pairs[m][1]]) # CellOf(particles[candidate_pairs[m][2]])
         /\ CellOf(particles[1]) = CellOf(particles[candidate_pairs[m][2]])

\* The reactions a step adds to the log, the particles they consume and the
\* particles they make, in match order.
NewReactions == SubSeq(log', Len(log) + 1, Len(log'))

RECURSIVE ProductsOf(_)
ProductsOf(lg) ==
    IF lg = << >> THEN << >> ELSE lg[1].products \o ProductsOf(Tail(lg))

ConsumedBy(lg) == UNION { IdsOf(lg[k].reactants) : k \in 1..Len(lg) }

Survivors(ps, gone) == SelectSeq(ps, LAMBDA p : p.id \notin gone)

PassStep == pc \in {"diatomic", "extra", "triple", "quad"} /\ pc' # pc

\* C22: every reaction pass leaves the particles it did not consume in the
\* list, unchanged and in their order, followed by the products of the
\* pass in match order; the reactants of its matches are particles of the
\* list as the pass found it.
C22_PassIsTwoPhase ==
    [][PassStep =>
         /\ particles' = Survivors(particles, ConsumedBy(NewReactions))
                           \o ProductsOf(NewReactions)
         /\ ConsumedBy(NewReactions) \subseteq IdsOf(particles)]_vars

\* After the diatomic pass: a consumed particle stood between two
\* survivors, and the list ends with the product.
C22_Witness ==
    /\ pc = "extra"
    /\ Len(log) >= 1
    /\ \E i \in 1..Len(pre), j \in 1..Len(pre), k \in 1..Len(pre) :
         /\ i < j /\ j < k
         /\ pre[j].id \in Consumed
         /\ particles[1] = pre[i] /\ particles[2] = pre[k]
    /\ particles[Len(particles)] = log[Len(log)].products[1]

\* The particle inside a box: radius <= x <= width - radius and
\* radius <= y <= height - radius.
Inside(p, width, height) ==
    /\ ~RLt(p.x, R(p.radius)) /\ ~RLt(R(width - p.radius), p.x)
    /\ ~RLt(p.y, R(p.radius)) /\ ~RLt(R(height - p.radius), p.y)

\* The velocity the damped reflection gives: minus half of v, and on the
\* floor zero when that is slower than 1.
Reflected(v, floor) ==
    LET half == RMul(Q(-1, 2), v)
    IN  IF floor /\ RLt(half, R(1)) /\ RLt(R(-1), half) THEN R(0) ELSE half

\* C23: after update_position(dt, main_width, main_height), for every prior
\* position and velocity and every box of at least 2 * radius on each
\* side, the particle lies inside the box, and a velocity component that
\* pointed into a wall the moved particle had reached or crossed is
\* replaced by -0.5 times its value (by 0 on the floor when that is slower
\* than 1).
C23_InsideAfterUpdate ==
    (/\ pc = "forces"
     /\ Len(particles) = 1
     /\ Len(pre) = 1
     /\ precision > 0
     /\ main_width >= 2 * pre[1].radius
     /\ main_height >= 2 * pre[1].radius) =>
        LET p == particles[1]
            m == Moved(pre[1], dt)
            r == R(pre[1].radius)
        IN  /\ Inside(p, main_width, main_height)
            /\ (RLt(R(main_height), RAdd(m.y, r)) /\ RLt(R(0), m.vy))
                   => p.vy = Reflected(m.vy, TRUE)
            /\ (RLt(RSub(m.y, r), R(0)) /\ RLt(m.vy, R(0)))
                   => p.vy = Reflected(m.vy, FALSE)
            /\ (RLt(RSub(m.x, r), R(0)) /\ RLt(m.vx, R(0)))
                   => p.vx = Reflected(m.vx, FALSE)
            /\ (RLt(R(main_width), RAdd(m.x, r)) /\ RLt(R(0), m.vx))
                   => p.vx = Reflected(m.vx, FALSE)

\* The particles of a list that carry a symbol.
WithSymbol(seq, sym) == { k \in 1..Len(seq) : seq[k].symbol = sym }

\* A list of one C, one O2 and two H2 in which the O2 overlaps the C and
\* the two H2 and the O2 overlap each other.
CarbonAndWaterCompete(seq) ==
    /\ Len(seq) = 4
    /\ Cardinality(WithSymbol(seq, "H2")) = 2
    /\ \E c \in WithSymbol(seq, "C"), o \in WithSymbol(seq, "O2") :
         /\ are_colliding(seq[c], seq[o])
         /\ \A h \in WithSymbol(seq, "H2") : are_colliding(seq[h], seq[o])
    /\ \A h \in WithSymbol(seq, "H2"), g \in WithSymbol(seq, "H2") :
         h # g => are_colliding(seq[h], seq[g])

PassRank(pass) ==
    CASE pass = "diatomic" -> 1 [] pass = "extra" -> 2
      [] pass = "triple" -> 3 [] pass = "quad" -> 4

\* C24: the passes run in the order diatomic, extra, triple, quadruple, and
\* the pairwise match wins a shared reactant: when an O2 overlaps a C and is
\* in a mutually overlapping group H2, H2, O2, the call makes CO2 and no
\* H2O, in every list order of the four particles.
C24_PairwiseBeforeTriple ==
    /\ \A a \in 1..Len(log), b \in 1..Len(log) :
           a < b => PassRank(log[a].pass) <= PassRank(log[b].pass)
    /\ (pc = "done" /\ CarbonAndWaterCompete(pre)) =>
           /\ WithSymbol(particles, "CO2") # {}
           /\ WithSymbol(particles, "H2O") = {}
           /\ \A k \in 1..Len(log) : log[k].pass = "extra"

\* The competing group with the two H2 first in the list and the C last.
C24_Witness ==
    /\ pc = "done"
    /\ CarbonAndWaterCompete(pre)
    /\ pre[1].symbol = "H2"
    /\ pre[4].symbol = "C"
    /\ WithSymbol(particles, "CO2") # {}

\* Strictly closer than the sum of the radii, on the squares.
StrictlyOverlapping(a, b) ==
    RLt(DistSq(<<a, b>>), R((a.radius + b.radius) * (a.radius + b.radius)))

OverlappingCandidates ==
    { candidate_pairs[k] : k \in { m \in 1..Len(candidate_pairs) :
          StrictlyOverlapping(particles[candidate_pairs[m][1]],
                              particles[candidate_pairs[m][2]]) } }

\* C25: detect_overlapping_pairs returns exactly the candidate pairs whose
\* squared centre distance is strictly below the squared radius sum (a
\* tangent pair is left out) and changes neither a particle nor the list;
\* do_elastic_bounce handles only pairs of the set recomputed after the
\* reaction passes, and only those that pass the same test when their turn
\* comes.
C25_StrictOverlapTest ==
    /\ pc \in {"diatomic", "bounce"} => colliding_pairs = OverlappingCandidates
    /\ pc = "diatomic" => particles = pre
    /\ pc = "done" =>
           \A k \in 1..Len(bounced) :
               /\ bounced[k].pair \in colliding_pairs
               /\ StrictlyOverlapping(bounced[k].before[1], bounced[k].before[2])

\* The pairs recomputed after the passes: a candidate pair at exactly the
\* tangent distance, left out of colliding_pairs.
C25_Witness ==
    /\ pc = "bounce"
    /\ \E k \in 1..Len(candidate_pairs) :
         LET a == particles[candidate_pairs[k][1]]
             b == particles[candidate_pairs[k][2]]
         IN  /\ DistSq(<<a, b>>) = R((a.radius + b.radius) * (a.radius + b.radius))
             /\ candidate_pairs[k] \notin colliding_pairs

\* C26: two particles with the same centre never make do_elastic_bounce
\* fail.  The step never ends in a division by zero; a pair handled while
\* its centres coincide gets the zero normal, so it is left where it was
\* with the velocities it had; and when every colliding pair is coincident
\* the outcome is the same whichever order the pairs are taken in, so two
\* runs from one state agree.
Coincident(a, b) == a.x = b.x /\ a.y = b.y

AllCoincident ==
    \A pair \in colliding_pairs :
        Coincident(particles[pair[1]], particles[pair[2]])

SameOutcome(a, b) == ~a.fault /\ ~b.fault /\ a.ps = b.ps

C26_CoincidentNeverFaults ==
    /\ pc # "fault"
    /\ (pc = "bounce" /\ AllCoincident) =>
           \A order \in IterationOrders(colliding_pairs) :
               SameOutcome(do_elastic_bounce(particles, order),
                           do_elastic_bounce(particles, Ascending(colliding_pairs)))
    /\ pc = "done" =>
           \A k \in 1..Len(bounced) :
               Coincident(bounced[k].before[1], bounced[k].before[2])
                   => bounced[k].after = bounced[k].before

C26_Witness ==
    /\ pc = "done"
    /\ Len(bounced) >= 2
    /\ \A k \in 1..Len(bounced) :
           Coincident(bounced[k].before[1], bounced[k].before[2])
    /\ \E k \in 1..Len(bounced) :
           bounced[k].before[1].vx # bounced[k].before[2].vx

\* C27: no step of resolve_collisions uses an index outside the list it is
\* working on.  Every reaction a pass makes names positions of the list the
\* pass was given, and its reactants are the particles at those positions,
\* although the pair set the pass consults may be older than that list;
\* every pair handed to do_elastic_bounce lies inside the list, and so does
\* every pair it handles.
InList(i, ps) == i \in 1..Len(ps)

StalePairs ==
    \E pair \in colliding_pairs : ~InList(pair[2], particles)

C27_IndicesInsideList ==
    [][/\ PassStep =>
             \A r \in 1..Len(NewReactions) :
                 \A k \in 1..Len(NewReactions[r].idx) :
                     /\ InList(NewReactions[r].idx[k], particles)
                     /\ NewReactions[r].reactants[k]
                            = particles[NewReactions[r].idx[k]]
       /\ pc = "bounce" =>
             /\ \A pair \in colliding_pairs :
                    InList(pair[1], particles) /\ InList(pair[2], particles)
             /\ \A k \in 1..Len(bounced') :
                    /\ InList(bounced'[k].pair[1], particles)
                    /\ InList(bounced'[k].pair[2], particles)]_vars

C27_Witness ==
    /\ pc = "regrid"
    /\ StalePairs
    /\ Len(log) >= 2
    /\ log[1].pass = "diatomic"
    /\ log[Len(log)].pass \in {"triple", "quad"}

\* C28: a frame of the host runs NUM_SUBSTEPS sub-steps, each in three
\* phases that do not mix.  In the calls made since the frame began, the
\* sub-step of a call is the number of resolve_collisions calls before it.
\* Within a sub-step every call is made once; apply_forces calls come
\* first; an update_position call has the apply_forces calls of all
\* particles before it; a resolve_collisions call has the update_position
\* calls of all particles before it; no physics call belongs to a sub-step
\* past the last; a draw call comes after all NUM_SUBSTEPS sub-steps; and a
\* frame that has ended has run exactly NUM_SUBSTEPS sub-steps and drawn
\* every particle.
SubStepOf(k) ==
    Cardinality({ j \in 1..(k - 1) : host.calls[j].call = "resolve_collisions" })

MadeBefore(k, name, i) ==
    \E j \in 1..(k - 1) :
        host.calls[j] = Called(name, i) /\ SubStepOf(j) = SubStepOf(k)

C28_SubStepsInOrder ==
    /\ \A k \in 1..Len(host.calls) :
         LET c == host.calls[k]
         IN  /\ c.call # "draw" => SubStepOf(k) < NUM_SUBSTEPS
             /\ c.call # "resolve_collisions" => ~MadeBefore(k, c.call, c.i)
             /\ c.call = "apply_forces" =>
                    \A j \in 1..(k - 1) :
                        SubStepOf(j) = SubStepOf(k)
                            => host.calls[j].call = "apply_forces"
             /\ c.call = "update_position" =>
                    \A i \in 1..Len(particles) : MadeBefore(k, "apply_forces", i)
             /\ c.call = "resolve_collisions" =>
                    \A i \in 1..Len(particles) : MadeBefore(k, "update_position", i)
             /\ c.call = "draw" => SubStepOf(k) = NUM_SUBSTEPS
    /\ pc = "tick" =>
         /\ SubStepOf(Len(host.calls) + 1) = NUM_SUBSTEPS
         /\ \A i \in 1..Len(particles) :
                MadeBefore(Len(host.calls) + 1, "draw", i)

C28_Witness ==
    /\ pc = "tick"
    /\ host.frames = MaxFrames
    /\ Len(particles) = 2
    /\ Len(host.calls) = NUM_SUBSTEPS * 5 + 2
    /\ particles[1].vy # R(0)
    /\ particles[1].x # particles[2].x

=============================================================================
